---------------------------- MODULE Spec2Model ----------------------------
(* Verification model of monhang's workspace synchronisation:              *)
(*   - the SyncResults store (Add / SetInProgress / UpdateResult /         *)
(*     GetResults) with its RWMutex and Go slice semantics,                *)
(*   - the sync engine (syncComponentBackground, runNonInteractiveSync,    *)
(*     runInteractiveSync and the bubbletea syncModel).                    *)
EXTENDS Integers, Sequences, FiniteSets, TLC

(***************************************************************************)
(* Bounds                                                                  *)
(***************************************************************************)
MaxCalls == 3        \* store API calls issued by the clients of SpecStore
MaxComps == 2        \* length of the flattened work list
ArrSlots == 4        \* backing arrays alive at once (store + snapshots)
MaxNodes == 4        \* Component structs in a manifest tree
MaxDeps == 3         \* dependencies declared in a project file
MaxRepos == 2        \* repositories handed to runNonInteractiveMode
MaxLines == 2        \* lines a command writes to stdout and stderr

(***************************************************************************)
(* Program constants                                                       *)
(***************************************************************************)
SyncActionCloned  == "cloned"
SyncActionUpdated == "updated"
SyncActionFailed  == "failed"

Threads == {"bg", "main"}
Nil     == <<>>                      \* the nil error
Free    == [used |-> FALSE, a |-> <<>>]   \* an unallocated heap slot
Array(seq) == [used |-> TRUE, a |-> seq]

\* type SyncResult struct
SyncResult(name, action, version, err, inprog) ==
    [Name |-> name, Action |-> action, Version |-> version,
     Error |-> err, InProgress |-> inprog]

ZeroResult == SyncResult("", "", "", Nil, FALSE)

VARIABLES
    heap,      \* Go heap: backing arrays of []SyncResult, by slot
    Results,   \* sr.Results slice header [arr, len, cap]
    mu,        \* sr.mu: [w |-> thread holding Lock or "", r |-> set of RLock holders]
    call,      \* per thread: the SyncResults method it is executing
    snap,      \* per thread: slice header last returned by GetResults
    ncalls,    \* SpecStore: API calls issued so far
    comps,     \* the flattened work list handed to the sync run
    fs,        \* file system: what <name>/.git is, per component name
    pc,        \* per thread: position in the sync code
    idx,       \* per thread: loop index over comps
    cur,       \* per thread: locals of the component being processed
    ui,        \* the bubbletea program and its syncModel
    tree,      \* the parsed manifest: Component structs by pointer, top list
    stack,     \* call stack of flattenComponents: one frame per invocation
    flat,      \* what handleWorkspaceSync got back from flattenComponents
    proj,      \* the Project parsed from the configuration file
    graph,     \* proj.graph: node values and edges, in creation order
    sorted,    \* proj.sorted
    git,       \* the argument lists the git runner was called with
    boot,      \* the boot command: position, loop index
    re,        \* the RepoExecutor: results map, mu, liveOutput
    objs,      \* the RepoResult structs, by the ExecuteCommand call that made them
    job,       \* runNonInteractiveMode: repos, command, parallel, position
    execs,     \* per ExecuteCommand call: position, buffers, the subprocess
    scanner,   \* per ExecuteCommand call: its live-output goroutine
    view,      \* the map last returned by RepoExecutor.GetResults
    srcComp,   \* the Component handed to the resolver
    resolution, \* what the resolver returned for it
    probe,     \* getCurrentVersion: the outcomes of its git queries, its result
    gitcmd,    \* the git command: its inputs, position, repository list
    ge,        \* the GitExecutor: results map, the Execute* calls
    gm         \* the gitModel of the interactive git command

storeVars == <<heap, Results, mu, call, snap>>
syncVars  == <<comps, fs, pc, idx, cur, ui>>
flattenVars == <<tree, stack, flat>>
bootVars  == <<proj, graph, sorted, git, boot>>
execVars  == <<re, objs, job, execs, scanner, view>>
resolveVars == <<srcComp, resolution>>
versionVars == <<probe>>
gitVars   == <<gitcmd, ge, gm>>
vars      == <<heap, Results, mu, call, snap, ncalls, comps, fs, pc, idx, cur, ui,
               flattenVars, bootVars, execVars, resolveVars, versionVars, gitVars>>

\* what a step of the sync run or of the store leaves alone
notSync == <<flattenVars, bootVars, execVars, resolveVars, versionVars, gitVars>>
\* what a step of flattenComponents leaves alone
notFlatten == <<storeVars, ncalls, syncVars, bootVars, execVars, resolveVars,
               versionVars, gitVars>>
\* what a step of the boot command leaves alone
notBoot == <<storeVars, ncalls, syncVars, flattenVars, execVars, resolveVars,
            versionVars, gitVars>>
\* what a step of the exec command leaves alone
notExec == <<storeVars, ncalls, syncVars, flattenVars, bootVars, resolveVars,
            versionVars, gitVars>>
\* what a step of the resolver leaves alone
notResolve == <<storeVars, ncalls, syncVars, flattenVars, bootVars, execVars,
               versionVars, gitVars>>
\* what a step of getCurrentVersion leaves alone
notVersion == <<storeVars, ncalls, syncVars, flattenVars, bootVars, execVars,
               resolveVars, gitVars>>
\* what a step of the git command leaves alone
notGit == <<storeVars, ncalls, syncVars, flattenVars, bootVars, execVars,
           resolveVars, versionVars>>

(***************************************************************************)
(* Go slices                                                               *)
(***************************************************************************)
NilSlice == [arr |-> 0, len |-> 0, cap |-> 0]
ArrIds   == 1..ArrSlots

\* the elements s[0:len(s)]
Elems(h, s) == IF s.arr = 0 THEN <<>> ELSE SubSeq(h[s.arr].a, 1, s.len)

ResultsSeq == Elems(heap, Results)
SnapSeq(t) == Elems(heap, snap[t])

FreeSlot(h) == CHOOSE i \in ArrIds : ~h[i].used /\ \A j \in ArrIds : ~h[j].used => i <= j

\* garbage collection: arrays no slice header refers to are released
Collect(h, roots) == [i \in ArrIds |-> IF i \in roots THEN h[i] ELSE Free]

Pad(seq, n) == seq \o [k \in 1..(n - Len(seq)) |-> ZeroResult]

\* variant: the new element is put in front of the others
PrependHeap(h, s, r) ==
    IF s.len < s.cap
    THEN [h EXCEPT ![s.arr].a = Pad(<<r>> \o Elems(h, s), s.cap)]
    ELSE [h EXCEPT ![FreeSlot(h)] =
              Array(Pad(<<r>> \o Elems(h, s), IF s.cap = 0 THEN 1 ELSE 2 * s.cap))]

\* append(s, r): in place when capacity allows, else a doubled new array
AppendHeap(h, s, r) ==
    IF s.len < s.cap
    THEN [h EXCEPT ![s.arr].a[s.len + 1] = r]
    ELSE [h EXCEPT ![FreeSlot(h)] =
              Array(Pad(Append(Elems(h, s), r), IF s.cap = 0 THEN 1 ELSE 2 * s.cap))]

AppendSlice(h, s) ==
    IF s.len < s.cap
    THEN [s EXCEPT !.len = s.len + 1]
    ELSE [arr |-> FreeSlot(h), len |-> s.len + 1,
          cap |-> IF s.cap = 0 THEN 1 ELSE 2 * s.cap]

\* make([]SyncResult, len(s)); copy(dst, s)
CopyOf(h, s) ==
    [heap  |-> [h EXCEPT ![FreeSlot(h)] = Array(Elems(h, s))],
     slice |-> [arr |-> FreeSlot(h), len |-> s.len, cap |-> s.len]]

Roots(res, sn) == {res.arr} \cup {sn[t].arr : t \in Threads}

(***************************************************************************)
(* sync.RWMutex                                                            *)
(***************************************************************************)
CanLock  == mu.w = "" /\ mu.r = {}
\* variant: GetResults reads without waiting for the writer
CanRLockAlways == TRUE
CanRLock == mu.w = ""

(***************************************************************************)
(* SyncResults methods, one step per lock operation or field write         *)
(***************************************************************************)
NoCall == [op |-> "none", pc |-> "ret", name |-> "", action |-> "",
           version |-> "", err |-> Nil, i |-> 0]

NewCall(op, name, action, version, err) ==
    [op |-> op, pc |-> "lock", name |-> name, action |-> action,
     version |-> version, err |-> err, i |-> 0]

Returned(t) == call[t].pc = "ret"

\* sr.mu.Lock() of Add, SetInProgress and UpdateResult
Lock(t) ==
    /\ call[t].op \in {"Add", "SetInProgress", "UpdateResult"}
    /\ call[t].pc = "lock"
    /\ CanLock
    /\ mu' = [mu EXCEPT !.w = t]
    /\ call' = [call EXCEPT ![t].pc = "body"]
    /\ UNCHANGED <<heap, Results, snap>>

\* the append of Add / SetInProgress followed by the deferred Unlock
AppendResult(t, r) ==
    /\ call[t].pc = "body"
    /\ Results' = AppendSlice(heap, Results)
    /\ heap' = Collect(AppendHeap(heap, Results, r), Roots(Results', snap))
    /\ mu' = [mu EXCEPT !.w = ""]
    /\ call' = [call EXCEPT ![t].pc = "ret"]
    /\ UNCHANGED snap

Add(t) ==
    /\ call[t].op = "Add"
    /\ AppendResult(t, SyncResult(call[t].name, call[t].action,
                                  call[t].version, call[t].err, FALSE))

SetInProgress(t) ==
    /\ call[t].op = "SetInProgress"
    /\ AppendResult(t, SyncResult(call[t].name, "", "", Nil, TRUE))

\* the loop of UpdateResult: index of the record it selects, 0 when none
RECURSIVE FindFrom(_, _, _)
FindFrom(rs, name, i) ==
    IF i > Len(rs) THEN 0
    ELSE IF rs[i].Name = name /\ rs[i].InProgress THEN i
    ELSE FindFrom(rs, name, i + 1)

RECURSIVE FindBack(_, _, _)
FindBack(rs, name, i) ==
    IF i < 1 THEN 0
    ELSE IF rs[i].Name = name /\ rs[i].InProgress THEN i
    ELSE FindBack(rs, name, i - 1)

\* variant: the loop runs from the last record to the first
FindInProgressLast(rs, name) == FindBack(rs, name, Len(rs))

RECURSIVE FindName(_, _, _)
FindName(rs, name, i) ==
    IF i > Len(rs) THEN 0
    ELSE IF rs[i].Name = name THEN i
    ELSE FindName(rs, name, i + 1)

\* variant: the loop tests the name only, not the InProgress flag
FindByNameOnly(rs, name) == FindName(rs, name, 1)

\* variant: the loop tests the InProgress flag only, not the name
FindAnyInProgress(rs, name) ==
    IF \E i \in 1..Len(rs) : rs[i].InProgress
    THEN CHOOSE i \in 1..Len(rs) :
             rs[i].InProgress /\ \A j \in 1..(i - 1) : ~rs[j].InProgress
    ELSE 0

FindInProgress(rs, name) == FindFrom(rs, name, 1)

\* loop until the match, then sr.Results[i].Action = action;
\* without a match the loop ends and the deferred Unlock runs
UpdateResultFind(t) ==
    /\ call[t].op = "UpdateResult"
    /\ call[t].pc = "body"
    /\ LET i == FindInProgress(ResultsSeq, call[t].name) IN
       IF i = 0
       THEN /\ mu' = [mu EXCEPT !.w = ""]
            /\ call' = [call EXCEPT ![t].pc = "ret"]
            /\ UNCHANGED <<heap, Results, snap>>
       ELSE /\ heap' = [heap EXCEPT ![Results.arr].a[i].Action = call[t].action]
            /\ call' = [call EXCEPT ![t].pc = "wVersion", ![t].i = i]
            /\ UNCHANGED <<Results, mu, snap>>

UpdateResultVersion(t) ==
    /\ call[t].op = "UpdateResult"
    /\ call[t].pc = "wVersion"
    /\ heap' = [heap EXCEPT ![Results.arr].a[call[t].i].Version = call[t].version]
    /\ call' = [call EXCEPT ![t].pc = "wError"]
    /\ UNCHANGED <<Results, mu, snap>>

UpdateResultError(t) ==
    /\ call[t].op = "UpdateResult"
    /\ call[t].pc = "wError"
    /\ heap' = [heap EXCEPT ![Results.arr].a[call[t].i].Error = call[t].err]
    /\ call' = [call EXCEPT ![t].pc = "wInProgress"]
    /\ UNCHANGED <<Results, mu, snap>>

\* sr.Results[i].InProgress = false; return (deferred Unlock)
UpdateResultDone(t) ==
    /\ call[t].op = "UpdateResult"
    /\ call[t].pc = "wInProgress"
    /\ heap' = [heap EXCEPT ![Results.arr].a[call[t].i].InProgress = FALSE]
    /\ mu' = [mu EXCEPT !.w = ""]
    /\ call' = [call EXCEPT ![t].pc = "ret"]
    /\ UNCHANGED <<Results, snap>>

UpdateResult(t) ==
    \/ UpdateResultFind(t)
    \/ UpdateResultVersion(t)
    \/ UpdateResultError(t)
    \/ UpdateResultDone(t)

\* sr.mu.RLock() of GetResults
RLock(t) ==
    /\ call[t].op = "GetResults"
    /\ call[t].pc = "lock"
    /\ CanRLock
    /\ mu' = [mu EXCEPT !.r = mu.r \cup {t}]
    /\ call' = [call EXCEPT ![t].pc = "body"]
    /\ UNCHANGED <<heap, Results, snap>>

\* variant: GetResults returns sr.Results itself
resultsAlias(h, s) == [heap |-> h, slice |-> s]
\* resultsCopy of GetResults: a fresh array holding the current elements
resultsCopy(h, s) == CopyOf(h, s)

\* make, copy, return resultsCopy (deferred RUnlock)
GetResults(t) ==
    /\ call[t].op = "GetResults"
    /\ call[t].pc = "body"
    /\ LET h0 == Collect(heap, Roots(Results, [snap EXCEPT ![t] = NilSlice]))
           c  == resultsCopy(h0, Results) IN
       /\ snap' = [snap EXCEPT ![t] = c.slice]
       /\ heap' = Collect(c.heap, Roots(Results, snap'))
    /\ mu' = [mu EXCEPT !.r = mu.r \ {t}]
    /\ call' = [call EXCEPT ![t].pc = "ret"]
    /\ UNCHANGED Results

StoreStep(t) ==
    \/ Lock(t)
    \/ Add(t)
    \/ SetInProgress(t)
    \/ UpdateResult(t)
    \/ RLock(t)
    \/ GetResults(t)


(***************************************************************************)
(* Source strings are sequences of lexical tokens: words and the           *)
(* separators below.  Words are made of scheme characters and start with   *)
(* a letter, except the all-digit words of PortWords.                      *)
(***************************************************************************)
Seps      == {":", "/", "?", "&", "=", "@"}
PortWords == {"22", "443"}

RECURSIVE IndexIn(_, _, _)
\* first index >= i of a token of set S, 0 when there is none
IndexIn(seq, S, i) ==
    IF i > Len(seq) THEN 0
    ELSE IF seq[i] \in S THEN i
    ELSE IndexIn(seq, S, i + 1)

RECURSIVE LastIndexIn(_, _, _)
LastIndexIn(seq, S, i) ==
    IF i < 1 THEN 0
    ELSE IF seq[i] \in S THEN i
    ELSE LastIndexIn(seq, S, i - 1)

Before(seq, k) == SubSeq(seq, 1, k - 1)
After(seq, k)  == SubSeq(seq, k + 1, Len(seq))
HasPrefix(seq, p) == Len(seq) >= Len(p) /\ SubSeq(seq, 1, Len(p)) = p
Count(seq, tok) == Cardinality({i \in 1..Len(seq) : seq[i] = tok})

\* net/url getScheme
getScheme(raw) ==
    LET k == IndexIn(raw, Seps, 1) IN
    IF k = 0 \/ raw[k] # ":" THEN [ok |-> TRUE, scheme |-> <<>>, rest |-> raw]
    ELSE IF k = 1 THEN [ok |-> FALSE, scheme |-> <<>>, rest |-> raw]
    ELSE [ok |-> TRUE, scheme |-> Before(raw, k), rest |-> After(raw, k)]

\* host[:port] of an authority: a port must be empty or all digits
validAuthority(auth) ==
    LET at   == LastIndexIn(auth, {"@"}, Len(auth))
        host == After(auth, at)
        c    == LastIndexIn(host, {":"}, Len(host))
        port == After(host, c)
    IN  c = 0 \/ port = <<>> \/ (Len(port) = 1 /\ port[1] \in PortWords)

\* net/url Parse, for sources without fragment, escapes or control bytes
urlParse(raw) ==
    LET s     == getScheme(raw)
        nq    == Count(s.rest, "?")
        force == nq = 1 /\ s.rest[Len(s.rest)] = "?"
        q     == IndexIn(s.rest, {"?"}, 1)
        rest  == IF q = 0 THEN s.rest ELSE Before(s.rest, q)
        query == IF q = 0 THEN <<>> ELSE After(s.rest, q)
        slash == IndexIn(rest, {"/"}, 1)
        seg1  == IF slash = 0 THEN rest ELSE Before(rest, slash)
        auth  == LET r2 == After(After(rest, 1), 1)
                     e  == IndexIn(r2, {"/"}, 1)
                 IN  IF e = 0 THEN r2 ELSE Before(r2, e)
        bad   == [ok |-> FALSE, Scheme |-> <<>>, Rest |-> <<>>,
                  RawQuery |-> <<>>, ForceQuery |-> FALSE]
    IN
    IF ~s.ok THEN bad
    ELSE IF ~HasPrefix(rest, <<"/">>) /\ s.scheme # <<>>
         THEN [ok |-> TRUE, Scheme |-> s.scheme, Rest |-> rest,
               RawQuery |-> query, ForceQuery |-> force]
    ELSE IF ~HasPrefix(rest, <<"/">>) /\ IndexIn(seg1, {":"}, 1) # 0 THEN bad
    ELSE IF /\ HasPrefix(rest, <<"/", "/">>)
            /\ (s.scheme # <<>> \/ ~HasPrefix(rest, <<"/", "/", "/">>))
            /\ ~validAuthority(auth) THEN bad
    ELSE [ok |-> TRUE, Scheme |-> s.scheme, Rest |-> rest,
          RawQuery |-> query, ForceQuery |-> force]

\* URL.String
urlString(u) ==
    (IF u.Scheme # <<>> THEN u.Scheme \o <<":">> ELSE <<>>)
    \o u.Rest
    \o (IF u.ForceQuery \/ u.RawQuery # <<>> THEN <<"?">> \o u.RawQuery ELSE <<>>)

RECURSIVE queryGet(_, _)
\* URL.Query().Get(key): the first value of key in the raw query
queryGet(query, key) ==
    IF query = <<>> THEN <<>>
    ELSE LET a    == IndexIn(query, {"&"}, 1)
             part == IF a = 0 THEN query ELSE Before(query, a)
             more == IF a = 0 THEN <<>> ELSE After(query, a)
             e    == IndexIn(part, {"="}, 1)
             k    == IF e = 0 THEN part ELSE Before(part, e)
             v    == IF e = 0 THEN <<>> ELSE After(part, e)
         IN  IF k = <<key>> THEN v ELSE queryGet(more, key)

\* variant: git:// is left as it is
parseSourceURLNoRewrite(source) ==
    LET u == urlParse(source) IN
    IF ~u.ok
    THEN [repoURL |-> source, version |-> <<>>, schemaType |-> <<>>]
    ELSE [repoURL    |-> urlString([u EXCEPT !.RawQuery = <<>>]),
          version    |-> queryGet(u.RawQuery, "version"),
          schemaType |-> queryGet(u.RawQuery, "type")]

\* parseSourceURL of package commands
parseSourceURL(source) ==
    LET u == urlParse(source) IN
    IF ~u.ok
    THEN [repoURL |-> source, version |-> <<>>, schemaType |-> <<>>]
    ELSE LET clean == urlString([u EXCEPT !.RawQuery = <<>>])
             gitp  == <<"git", ":", "/", "/">>
         IN  [repoURL |-> IF HasPrefix(clean, gitp)
                          THEN <<"https", ":", "/", "/">>
                               \o SubSeq(clean, Len(gitp) + 1, Len(clean))
                          ELSE clean,
              version    |-> queryGet(u.RawQuery, "version"),
              schemaType |-> queryGet(u.RawQuery, "type")]


(***************************************************************************)
(* Work lists, file system and the git subprocess                          *)
(***************************************************************************)
Names == {"a", "b"}

\* git://h/a.git?version=v1  and  https://h/b.git
SourceA == <<"git", ":", "/", "/", "h", "/", "a.git", "?", "version", "=", "v1">>
SourceB == <<"https", ":", "/", "/", "h", "/", "b.git">>

Component(name, source) == [Name |-> name, Source |-> source]
Pool == {Component("a", SourceA), Component("b", SourceB)}

WorkLists == [1..MaxComps -> Pool]

\* what os.Stat(<name>/.git) finds
FsKinds == {"absent", "file", "dir"}

\* the error of a git subprocess that exits non-zero
ExitError == <<"exit status 128">>

\* executeGitCmd: trimmed stdout, replaced by stderr when the run fails
\* with a message
executeGitCmd(stdout, stderr, err) ==
    [out |-> IF err # Nil /\ stderr # "" THEN stderr ELSE stdout, err |-> err]

GitOk(stdout) == executeGitCmd(stdout, "", Nil)
GitFail       == executeGitCmd("", "fatal", ExitError)
GitRun(stdout) == {GitOk(stdout), GitFail}

\* one executeGitCmd call: directory, arguments and the error it returned
GitOp(dir, cmd, args, err) == [dir |-> dir, cmd |-> cmd, args |-> args, err |-> err]

\* git describe --tags --exact-match HEAD: HEAD is the tag v1 after the
\* checkout of a version, and an untagged branch head otherwise
Describe(version) == IF version # <<>> THEN GitOk("v1") ELSE GitFail
\* git rev-parse --abbrev-ref HEAD and git rev-parse --short HEAD
AbbrevRef == GitOk("main")
ShortHash == GitOk("abc12")

\* variant: any <name>/.git counts, directory or not
componentExistsAnyKind(name) == fs[name] # "absent"

\* componentExists: <name>/.git can be stat'ed and is a directory
componentExists(name) == IF fs[name] = "absent" THEN FALSE ELSE fs[name] = "dir"

\* variant: the error of the checkout is dropped
cloneComponentDropsCheckoutError(name, repoURL, version, clone, checkout) ==
    LET op1 == GitOp("", "clone", <<repoURL, <<name>>>>, clone.err)
        op2 == GitOp(name, "checkout", <<version>>, checkout.err)
    IN
    IF clone.err # Nil
    THEN [err |-> <<"clone failed: ">> \o clone.err, ops |-> <<op1>>]
    ELSE IF version # <<>>
         THEN [err |-> Nil, ops |-> <<op1, op2>>]
         ELSE [err |-> Nil, ops |-> <<op1>>]

\* cloneComponent, given the outcomes of the subprocesses it may run
cloneComponent(name, repoURL, version, clone, checkout) ==
    LET op1 == GitOp("", "clone", <<repoURL, <<name>>>>, clone.err)
        op2 == GitOp(name, "checkout", <<version>>, checkout.err)
    IN
    IF clone.err # Nil
    THEN [err |-> <<"clone failed: ">> \o clone.err, ops |-> <<op1>>]
    ELSE IF version # <<>>
         THEN IF checkout.err # Nil
              THEN [err |-> <<"checkout ">> \o version \o <<" failed: ">>
                            \o checkout.err,
                    ops |-> <<op1, op2>>]
              ELSE [err |-> Nil, ops |-> <<op1, op2>>]
         ELSE [err |-> Nil, ops |-> <<op1>>]

\* variant: without a version only pull runs, fetch is skipped
updateComponentPullOnly(name, version, fetch, checkout, pull) ==
    LET op1 == GitOp(name, "fetch", <<<<"--all">>, <<"--tags">>>>, fetch.err)
        op2 == GitOp(name, "checkout", <<version>>, checkout.err)
        op3 == GitOp(name, "pull", <<>>, pull.err)
    IN
    IF version = <<>>
    THEN IF pull.err # Nil
         THEN [action |-> "", err |-> <<"pull failed: ">> \o pull.err,
               ops |-> <<op3>>]
         ELSE [action |-> SyncActionUpdated, err |-> Nil, ops |-> <<op3>>]
    ELSE IF fetch.err # Nil
    THEN [action |-> "", err |-> <<"fetch failed: ">> \o fetch.err,
          ops |-> <<op1>>]
    ELSE IF checkout.err # Nil
         THEN [action |-> "",
               err |-> <<"checkout ">> \o version \o <<" failed: ">>
                       \o checkout.err,
               ops |-> <<op1, op2>>]
         ELSE [action |-> SyncActionUpdated, err |-> Nil,
               ops |-> <<op1, op2>>]

\* updateComponent, given the outcomes of the subprocesses it may run
updateComponent(name, version, fetch, checkout, pull) ==
    LET op1 == GitOp(name, "fetch", <<<<"--all">>, <<"--tags">>>>, fetch.err)
        op2 == GitOp(name, "checkout", <<version>>, checkout.err)
        op3 == GitOp(name, "pull", <<>>, pull.err)
    IN
    IF fetch.err # Nil
    THEN [action |-> "", err |-> <<"fetch failed: ">> \o fetch.err,
          ops |-> <<op1>>]
    ELSE IF version # <<>>
         THEN IF checkout.err # Nil
              THEN [action |-> "",
                    err |-> <<"checkout ">> \o version \o <<" failed: ">>
                            \o checkout.err,
                    ops |-> <<op1, op2>>]
              ELSE [action |-> SyncActionUpdated, err |-> Nil,
                    ops |-> <<op1, op2>>]
         ELSE IF pull.err # Nil
              THEN [action |-> "", err |-> <<"pull failed: ">> \o pull.err,
                    ops |-> <<op1, op3>>]
              ELSE [action |-> SyncActionUpdated, err |-> Nil,
                    ops |-> <<op1, op3>>]

\* variant: the branch name is tried before the tag
getCurrentVersionBranchFirst(tag, branch, hash) ==
    IF branch.err = Nil /\ branch.out # "" THEN branch.out
    ELSE IF tag.err = Nil /\ tag.out # "" THEN tag.out
    ELSE hash.out

\* getCurrentVersion, given the outcomes of describe, rev-parse
\* --abbrev-ref and rev-parse --short
getCurrentVersion(tag, branch, hash) ==
    IF tag.err = Nil /\ tag.out # "" THEN tag.out
    ELSE IF branch.err = Nil /\ branch.out # "" THEN branch.out
    ELSE hash.out

(***************************************************************************)
(* Complete calls of the SyncResults methods.  Every method holds sr.mu    *)
(* from its first to its last statement, so a call made by the sync code   *)
(* is one step: Lock, body, Unlock.                                        *)
(***************************************************************************)
\* variant: UpdateResult does not store the error
ResolvedDropsError(r, action, version, err) ==
    [r EXCEPT !.Action = action, !.Version = version, !.InProgress = FALSE]

\* the four field writes of UpdateResult on record i
Resolved(r, action, version, err) ==
    [r EXCEPT !.Action = action, !.Version = version, !.Error = err,
              !.InProgress = FALSE]

callSetInProgress(name) ==
    /\ CanLock
    /\ Results' = AppendSlice(heap, Results)
    /\ heap' = Collect(AppendHeap(heap, Results, SyncResult(name, "", "", Nil, TRUE)),
                       Roots(Results', snap))
    /\ UNCHANGED <<mu, call, snap>>

callUpdateResult(name, action, version, err) ==
    /\ CanLock
    /\ LET i == FindInProgress(ResultsSeq, name) IN
       heap' = IF i = 0 THEN heap
               ELSE [heap EXCEPT ![Results.arr].a[i] =
                                     Resolved(@, action, version, err)]
    /\ UNCHANGED <<Results, mu, call, snap>>

callGetResults(t) ==
    /\ CanRLock
    /\ LET h0 == Collect(heap, Roots(Results, [snap EXCEPT ![t] = NilSlice]))
           c  == resultsCopy(h0, Results) IN
       /\ snap' = [snap EXCEPT ![t] = c.slice]
       /\ heap' = Collect(c.heap, Roots(Results, snap'))
    /\ UNCHANGED <<Results, mu, call>>

(***************************************************************************)
(* The sync engine: one component of the work list                         *)
(***************************************************************************)
Alive == pc["main"] # "exited"

\* locals of the loop body; stat is what os.Stat found in componentExists
NoCur == [name |-> "", repoURL |-> <<>>, version |-> <<>>, stat |-> "",
          path |-> "", ops |-> <<>>, action |-> "", ver |-> "", err |-> Nil]

\* the index the range loop over comps visits after index i
NextIdx(t, i) == i + 1

\* loop header at index i: another component, or the loop is over
EnterPc(t, i) ==
    IF i > Len(comps) THEN (IF t = "main" THEN "summary" ELSE "done")
    ELSE "claim"

\* results.SetInProgress(comp.Name)
Claim(t) ==
    /\ Alive
    /\ pc[t] = "claim"
    /\ callSetInProgress(comps[idx[t]].Name)
    /\ cur' = [cur EXCEPT ![t] = [NoCur EXCEPT !.name = comps[idx[t]].Name]]
    /\ pc' = [pc EXCEPT ![t] = "check"]
    /\ UNCHANGED <<ncalls, comps, fs, idx, ui>>
    /\ UNCHANGED notSync

\* parseSourceURL and the componentExists branch
Decide(t) ==
    /\ Alive
    /\ pc[t] = "check"
    /\ LET p == parseSourceURL(comps[idx[t]].Source)
           path == IF componentExists(cur[t].name) THEN "update" ELSE "clone"
       IN /\ cur' = [cur EXCEPT ![t].repoURL = p.repoURL,
                                ![t].version = p.version,
                                ![t].stat = fs[cur[t].name],
                                ![t].path = path]
          /\ pc' = [pc EXCEPT ![t] = path]
    /\ UNCHANGED <<heap, Results, mu, call, snap, ncalls, comps, fs, idx, ui>>
    /\ UNCHANGED notSync

\* the arguments of the UpdateResult call that follows the git operations
Outcome(t, ops, action, version, err) ==
    /\ cur' = [cur EXCEPT ![t].ops = ops, ![t].action = action,
                          ![t].ver = version, ![t].err = err]
    /\ pc' = [pc EXCEPT ![t] = "resolve"]

\* clone branch: cloneComponent, then getCurrentVersion on success
SyncClone(t) ==
    /\ Alive
    /\ pc[t] = "clone"
    /\ \E clone \in GitRun(""), checkout \in GitRun("") :
         \* git clones only into a directory that does not exist yet
         /\ clone.err = Nil => fs[cur[t].name] = "absent"
         /\ LET r == cloneComponent(cur[t].name, cur[t].repoURL,
                                    cur[t].version, clone, checkout) IN
            /\ fs' = IF clone.err = Nil
                     THEN [fs EXCEPT ![cur[t].name] = "dir"] ELSE fs
            /\ IF r.err # Nil
               THEN Outcome(t, r.ops, SyncActionFailed, "", r.err)
               ELSE Outcome(t, r.ops, SyncActionCloned,
                            getCurrentVersion(Describe(cur[t].version),
                                              AbbrevRef, ShortHash), Nil)
    /\ UNCHANGED <<heap, Results, mu, call, snap, ncalls, comps, idx, ui>>
    /\ UNCHANGED notSync

\* update branch: updateComponent, then getCurrentVersion on success
SyncUpdate(t) ==
    /\ Alive
    /\ pc[t] = "update"
    /\ \E fetch \in GitRun(""), checkout \in GitRun(""), pull \in GitRun("") :
         LET r == updateComponent(cur[t].name, cur[t].version,
                                  fetch, checkout, pull) IN
         IF r.err # Nil
         THEN Outcome(t, r.ops, SyncActionFailed, "", r.err)
         ELSE Outcome(t, r.ops, r.action,
                      getCurrentVersion(Describe(cur[t].version),
                                        AbbrevRef, ShortHash), Nil)
    /\ UNCHANGED <<heap, Results, mu, call, snap, ncalls, comps, fs, idx, ui>>
    /\ UNCHANGED notSync

\* variant: the failure branches go on without calling UpdateResult
ResolveSkipsFailure(t) ==
    /\ Alive
    /\ pc[t] = "resolve"
    /\ IF cur[t].action = SyncActionFailed
       THEN UNCHANGED <<heap, Results, mu, call, snap>>
       ELSE callUpdateResult(cur[t].name, cur[t].action, cur[t].ver, cur[t].err)
    /\ cur' = [cur EXCEPT ![t] = NoCur]
    /\ idx' = [idx EXCEPT ![t] = NextIdx(t, idx[t])]
    /\ pc' = [pc EXCEPT ![t] = EnterPc(t, idx'[t])]
    /\ UNCHANGED <<ncalls, comps, fs, ui>>
    /\ UNCHANGED notSync

\* results.UpdateResult(comp.Name, ...), then the next loop iteration
Resolve(t) ==
    /\ Alive
    /\ pc[t] = "resolve"
    /\ callUpdateResult(cur[t].name, cur[t].action, cur[t].ver, cur[t].err)
    /\ cur' = [cur EXCEPT ![t] = NoCur]
    /\ idx' = [idx EXCEPT ![t] = NextIdx(t, idx[t])]
    /\ pc' = [pc EXCEPT ![t] = EnterPc(t, idx'[t])]
    /\ UNCHANGED <<ncalls, comps, fs, ui>>
    /\ UNCHANGED notSync

\* syncComponentBackground / the body of the runNonInteractiveSync loop
syncComponent(t) ==
    \/ Claim(t)
    \/ Decide(t)
    \/ SyncClone(t)
    \/ SyncUpdate(t)
    \/ Resolve(t)

(***************************************************************************)
(* runInteractiveSync, the bubbletea program and runNonInteractiveSync     *)
(***************************************************************************)
\* runNonInteractiveSync entered on the main goroutine
runNonInteractiveSync ==
    /\ pc' = [pc EXCEPT !["main"] = EnterPc("main", 1)]
    /\ idx' = [idx EXCEPT !["main"] = 1]
    /\ UNCHANGED <<heap, Results, mu, call, snap, ncalls, comps, fs, cur>>

\* !term.IsTerminal(stdout): non-interactive run
NoTerminal ==
    /\ pc["main"] = "start"
    /\ runNonInteractiveSync
    /\ UNCHANGED ui
    /\ UNCHANGED notSync

\* logging.RedirectLoggingToFile failed: non-interactive run
RedirectFailed ==
    /\ pc["main"] = "start"
    /\ runNonInteractiveSync
    /\ UNCHANGED ui
    /\ UNCHANGED notSync

\* go func() { for ... syncComponentBackground }(); tea.NewProgram(...).Run()
StartInteractive ==
    /\ pc["main"] = "start"
    /\ pc' = [pc EXCEPT !["bg"] = EnterPc("bg", 1), !["main"] = "ui"]
    /\ idx' = [idx EXCEPT !["bg"] = 1]
    /\ UNCHANGED <<heap, Results, mu, call, snap, ncalls, comps, fs, cur, ui>>
    /\ UNCHANGED notSync

\* the allDone loop of syncModel.Update over the snapshot
allDoneOf(results) == \A i \in 1..Len(results) : ~results[i].InProgress

\* syncTickMsg: currentResults := GetResults(), allDone.  When all done,
\* tea.Quit ends Run and the command; otherwise the next tick is scheduled
\* and currentResults goes out of scope.
Tick ==
    /\ pc["main"] = "ui"
    /\ CanRLock
    /\ LET allDone == allDoneOf(ResultsSeq) IN
       /\ ui' = [ui EXCEPT !.allDone = allDone]
       /\ pc' = [pc EXCEPT !["main"] = IF allDone THEN "exited" ELSE "ui"]
       /\ IF allDone
          THEN callGetResults("main")
          ELSE UNCHANGED <<heap, Results, mu, call, snap>>
    /\ UNCHANGED <<ncalls, comps, fs, idx, cur>>
    /\ UNCHANGED notSync

\* tea.KeyMsg "q" or ctrl+c
KeyQuit ==
    /\ pc["main"] = "ui"
    /\ ui' = [ui EXCEPT !.quitting = TRUE]
    /\ pc' = [pc EXCEPT !["main"] = "exited"]
    /\ UNCHANGED <<heap, Results, mu, call, snap, ncalls, comps, fs, idx, cur>>
    /\ UNCHANGED notSync

\* p.Run() returns an error: fall back to runNonInteractiveSync
RunError ==
    /\ pc["main"] = "ui"
    /\ ui' = [ui EXCEPT !.runErr = TRUE]
    /\ runNonInteractiveSync
    /\ UNCHANGED notSync

\* printNonInteractiveSummary reads GetResults; runInteractiveSync returns
\* nil and the command ends
Summary ==
    /\ pc["main"] = "summary"
    /\ callGetResults("main")
    /\ pc' = [pc EXCEPT !["main"] = "exited"]
    /\ UNCHANGED <<ncalls, comps, fs, idx, cur, ui>>
    /\ UNCHANGED notSync

\* the error runInteractiveSync returns: nil at every return statement
runInteractiveSyncErr == Nil

\* the exit status of the command: handleWorkspaceSync calls os.Exit(1)
\* only when runInteractiveSync returns an error, otherwise main returns
handleWorkspaceSyncExit == IF runInteractiveSyncErr # Nil THEN 1 ELSE 0

runInteractiveSync ==
    \/ NoTerminal
    \/ RedirectFailed
    \/ StartInteractive
    \/ Tick
    \/ KeyQuit
    \/ RunError
    \/ Summary

\* no manifest has been flattened
NoFlatten ==
    /\ tree = [node |-> <<>>, comps |-> <<>>]
    /\ stack = <<>>
    /\ flat = [done |-> FALSE, list |-> <<>>]

\* a nil *RepoConfig
NilRepoConfig == [nil |-> TRUE, Base |-> <<>>]

NoDeps == [Build |-> <<>>, Runtime |-> <<>>, Intall |-> <<>>]

\* no configuration file has been loaded by boot
NoBoot ==
    /\ proj = [Name |-> "", Version |-> "", Repo |-> <<>>,
               Repoconfig |-> NilRepoConfig, Deps |-> NoDeps]
    /\ graph = [nodes |-> <<>>, edges |-> <<>>]
    /\ sorted = <<>>
    /\ git = <<>>
    /\ boot = [pc |-> "off", i |-> 0]

\* no exec command is running
NoExec ==
    /\ re = [results |-> <<>>, mu |-> [w |-> 0, r |-> {}], liveOutput |-> FALSE]
    /\ objs = <<>>
    /\ job = [repos |-> <<>>, command |-> <<>>, parallel |-> FALSE, pc |-> "off"]
    /\ execs = <<>>
    /\ scanner = <<>>
    /\ view = [pc |-> "off", results |-> <<>>]

\* no component is being resolved
NoResolve ==
    /\ srcComp = [Name |-> <<>>, Source |-> <<>>, Version |-> <<>>]
    /\ resolution = [pc |-> "off"]

\* getCurrentVersion is not being run on its own
NoVersion ==
    probe = [pc |-> "off"]

\* no git command is running
NoGit ==
    /\ gitcmd = [pc |-> "off"]
    /\ ge = [results |-> <<>>, calls |-> <<>>]
    /\ gm = [pc |-> "off"]

\* nothing but the sub-model at hand is active
NoOthers == NoExec /\ NoResolve /\ NoVersion /\ NoGit

EmptyStore ==
    /\ heap = [i \in ArrIds |-> Free]
    /\ Results = NilSlice
    /\ mu = [w |-> "", r |-> {}]
    /\ call = [t \in Threads |-> NoCall]
    /\ snap = [t \in Threads |-> NilSlice]
    /\ ncalls = 0

Init ==
    /\ EmptyStore
    /\ comps \in WorkLists
    /\ fs \in [Names -> FsKinds]
    /\ pc = [t \in Threads |-> IF t = "main" THEN "start" ELSE "off"]
    /\ idx = [t \in Threads |-> 0]
    /\ cur = [t \in Threads |-> NoCur]
    /\ ui = [allDone |-> FALSE, quitting |-> FALSE, runErr |-> FALSE]
    /\ NoFlatten
    /\ NoBoot
    /\ NoOthers

Next ==
    \/ runInteractiveSync
    \/ \E t \in Threads : syncComponent(t)

Spec == Init /\ [][Next]_vars

(***************************************************************************)
(* SpecStore: clients calling the SyncResults methods in any order         *)
(***************************************************************************)
Outcomes ==
    {<<SyncActionCloned, "v1", Nil>>,
     <<SyncActionFailed, "", <<"clone failed: ">> \o ExitError>>}

ClientCall(t) ==
    /\ Returned(t)
    /\ ncalls < MaxCalls
    /\ ncalls' = ncalls + 1
    /\ \/ \E n \in Names, o \in Outcomes :
            call' = [call EXCEPT ![t] = NewCall("Add", n, o[1], o[2], o[3])]
       \/ \E n \in Names :
            call' = [call EXCEPT ![t] = NewCall("SetInProgress", n, "", "", Nil)]
       \/ \E n \in Names, o \in Outcomes :
            call' = [call EXCEPT ![t] = NewCall("UpdateResult", n, o[1], o[2], o[3])]
       \/ call' = [call EXCEPT ![t] = NewCall("GetResults", "", "", "", Nil)]
    /\ UNCHANGED <<heap, Results, mu, snap, comps, fs, pc, idx, cur, ui>>
    /\ UNCHANGED notSync

\* the caller writes into the slice GetResults gave it
ModifySnapshot(t) ==
    /\ Returned(t)
    /\ \E i \in 1..snap[t].len :
         /\ heap[snap[t].arr].a[i].Name # "modified"
         /\ heap' = [heap EXCEPT ![snap[t].arr].a[i].Name = "modified"]
    /\ UNCHANGED <<Results, mu, call, snap, ncalls, comps, fs, pc, idx, cur, ui>>
    /\ UNCHANGED notSync

\* a step of a SyncResults method called by a client
Store(t) ==
    /\ StoreStep(t)
    /\ UNCHANGED <<ncalls, comps, fs, pc, idx, cur, ui>>
    /\ UNCHANGED notSync

InitStore ==
    /\ EmptyStore
    /\ comps = <<>>
    /\ fs = [n \in Names |-> "absent"]
    /\ pc = [t \in Threads |-> "client"]
    /\ idx = [t \in Threads |-> 0]
    /\ cur = [t \in Threads |-> NoCur]
    /\ ui = [allDone |-> FALSE, quitting |-> FALSE, runErr |-> FALSE]
    /\ NoFlatten
    /\ NoBoot
    /\ NoOthers

NextStore ==
    \/ \E t \in Threads : ClientCall(t)
    \/ \E t \in Threads : Store(t)
    \/ \E t \in Threads : ModifySnapshot(t)

SpecStore == InitStore /\ [][NextStore]_vars


(***************************************************************************)
(* Properties of the SyncResults store (SpecStore)                         *)
(***************************************************************************)
SetMin(S) == CHOOSE x \in S : \A y \in S : x <= y
SetMax(S) == CHOOSE x \in S : \A y \in S : y <= x

\* indexes of the in-progress records called name
Pending(rs, name) ==
    {j \in 1..Len(rs) : rs[j].Name = name /\ rs[j].InProgress}

\* indexes of the records this step turns from in-progress to terminal
MadeTerminal ==
    {j \in 1..Len(ResultsSeq) :
        /\ ResultsSeq[j].InProgress
        /\ j <= Len(ResultsSeq') /\ ~ResultsSeq'[j].InProgress}

\* the step in which thread t's UpdateResult clears InProgress and returns
UpdateReturns(t) ==
    /\ call[t].op = "UpdateResult"
    /\ call[t].pc = "wInProgress"
    /\ call'[t].pc = "ret"

\* C1 as stated: the record UpdateResult(name, ...) makes terminal is the
\* most recently appended in-progress record with that name.
C1_MostRecentResolved ==
    [][\A t \in Threads : UpdateReturns(t) =>
          MadeTerminal = {SetMax(Pending(ResultsSeq, call[t].name))}]_vars

\* C1 amended: UpdateResult(name, action, version, err) makes terminal
\* exactly one record, the earliest-appended record with that name that is
\* still in-progress, and that record then carries the call's arguments.
C1_EarliestResolved ==
    [][\A t \in Threads : UpdateReturns(t) =>
          LET i == SetMin(Pending(ResultsSeq, call[t].name)) IN
          /\ MadeTerminal = {i}
          /\ ResultsSeq'[i] = SyncResult(call[t].name, call[t].action,
                                         call[t].version, call[t].err, FALSE)]_vars

\* the same name marked in-progress twice, one UpdateResult done: the
\* earlier record is terminal, the later one still in-progress
C1_Witness ==
    \E t \in Threads : \E i, j \in 1..Len(ResultsSeq) :
        /\ call[t].op = "UpdateResult" /\ Returned(t) /\ call[t].i = i
        /\ i < j
        /\ ResultsSeq[i].Name = ResultsSeq[j].Name
        /\ ~ResultsSeq[i].InProgress /\ ResultsSeq[i].Action = call[t].action
        /\ ResultsSeq[j].InProgress

\* C2: a record whose InProgress flag is false never changes again: its
\* Action, Version and Error stay and it never becomes in-progress again.
C2_TerminalIsFinal ==
    [][\A i \in 1..Len(ResultsSeq) :
          ~ResultsSeq[i].InProgress =>
              /\ i <= Len(ResultsSeq')
              /\ ResultsSeq'[i] = ResultsSeq[i]]_vars

\* an UpdateResult for a name has returned although the only record of
\* that name was terminal already, with another action than the call's
C2_Witness ==
    \E t \in Threads : \E i \in 1..Len(ResultsSeq) :
        /\ call[t].op = "UpdateResult" /\ Returned(t) /\ call[t].i = 0
        /\ ResultsSeq[i].Name = call[t].name
        /\ ~ResultsSeq[i].InProgress
        /\ ResultsSeq[i].Action # call[t].action

\* a record as SetInProgress writes it
WhollyInProgress(r) ==
    r.InProgress /\ r.Action = "" /\ r.Version = "" /\ r.Error = Nil

\* a record as one complete UpdateResult or Add writes it
WhollyWritten(r) ==
    ~r.InProgress /\ <<r.Action, r.Version, r.Error>> \in Outcomes

\* C5: every record of a snapshot returned by GetResults is either wholly
\* in-progress or wholly as written by one completed UpdateResult or Add,
\* under any interleaving of the callers.
C5_NoTornRecord ==
    \A t \in Threads : \A i \in 1..Len(SnapSeq(t)) :
        WhollyInProgress(SnapSeq(t)[i]) \/ WhollyWritten(SnapSeq(t)[i])

\* a poller holds a snapshot with an in-progress record while another
\* thread is in the middle of the field writes of UpdateResult
C5_Witness ==
    \E t, u \in Threads :
        /\ t # u
        /\ call[t].op = "GetResults" /\ Returned(t)
        /\ \E i \in 1..Len(SnapSeq(t)) : SnapSeq(t)[i].InProgress
        /\ call[u].op = "UpdateResult" /\ call[u].pc \in {"wVersion", "wError"}

\* the step in which thread t's GetResults returns its slice
GetResultsReturns(t) ==
    /\ call[t].op = "GetResults"
    /\ call[t].pc = "body"
    /\ call'[t].pc = "ret"

\* a step of a store method (every one moves a call frame)
MethodStep == call' # call
\* a step in which a caller writes into a slice it was given
CallerWrite == call' = call /\ heap' # heap

\* C6: a snapshot is independent of the store: store operations after the
\* call leave the returned elements unchanged, and writing into the
\* returned slice leaves the store unchanged.
C6_SnapshotIndependent ==
    [][/\ \A t \in Threads :
            (MethodStep /\ ~GetResultsReturns(t)) =>
                (snap'[t] = snap[t] /\ SnapSeq(t)' = SnapSeq(t))
       /\ CallerWrite => ResultsSeq' = ResultsSeq]_vars

\* a returned snapshot and the store have both moved on: the snapshot
\* element was renamed by the caller, the store record was resolved
C6_Witness ==
    \E t \in Threads :
        /\ Len(SnapSeq(t)) >= 1 /\ Len(ResultsSeq) >= 1
        /\ SnapSeq(t)[1].Name = "modified" /\ SnapSeq(t)[1].InProgress
        /\ ResultsSeq[1].Name # "modified" /\ ~ResultsSeq[1].InProgress


(***************************************************************************)
(* Properties of the sync engine (Spec)                                    *)
(***************************************************************************)
\* threads between their SetInProgress(n) and their UpdateResult(n, ...)
Holders(n) ==
    {t \in Threads : pc[t] \in {"check", "clone", "update", "resolve"}
                     /\ cur[t].name = n}

Terminal(r) ==
    ~r.InProgress
    /\ r.Action \in {SyncActionCloned, SyncActionUpdated, SyncActionFailed}

AllTerminal == \A i \in 1..Len(ResultsSeq) : Terminal(ResultsSeq[i])

LoopLeft(t) == pc[t] \in {"done", "summary"}

\* C3: each processing of a component makes exactly one SetInProgress(name)
\* before any git operation and exactly one UpdateResult(name, ...) on every
\* path: the in-progress records of a name are as many as the workers that
\* are between the two calls, so a worker that has gone on to the next
\* component has left none behind.
C3_OneClaimOneResolve ==
    /\ \A n \in Names :
          Cardinality(Pending(ResultsSeq, n)) = Cardinality(Holders(n))
    /\ \A t \in Threads :
          cur[t].ops # <<>> => pc[t] = "resolve" /\ t \in Holders(cur[t].name)

\* a worker has left the loop after a failed and a successful component,
\* and no record is in-progress
C3_Witness ==
    \E t \in Threads :
        /\ LoopLeft(t)
        /\ AllTerminal
        /\ \E i, j \in 1..Len(ResultsSeq) :
              /\ ResultsSeq[i].Action = SyncActionFailed
              /\ ResultsSeq[j].Action \in {SyncActionCloned, SyncActionUpdated}

DistinctNames ==
    \A i, j \in 1..Len(comps) : comps[i].Name = comps[j].Name => i = j

\* C4 as stated: when the run over N components with distinct names has
\* ended, the store holds exactly N records, all terminal, one per name.
C4_ExactlyNTerminal ==
    (pc["main"] = "exited" /\ DistinctNames) =>
        /\ Len(ResultsSeq) = Len(comps)
        /\ AllTerminal
        /\ \A k \in 1..Len(comps) :
              Cardinality({i \in 1..Len(ResultsSeq) :
                              ResultsSeq[i].Name = comps[k].Name}) = 1

Cmds(ops) == [k \in 1..Len(ops) |-> ops[k].cmd]

\* C7: every processing of a component takes exactly one of the two paths,
\* chosen by whether <name>/.git was found to be a directory: update when
\* it was, clone when it was not; the git operations that follow belong to
\* that path only.
C7_OnePathByGitDir ==
    \A t \in Threads :
        pc[t] \in {"clone", "update", "resolve"} =>
            /\ cur[t].path \in {"clone", "update"}
            /\ cur[t].path = "update" <=> cur[t].stat = "dir"
            /\ pc[t] # "resolve" => pc[t] = cur[t].path /\ cur[t].ops = <<>>
            /\ pc[t] = "resolve" =>
                  /\ cur[t].ops # <<>>
                  /\ cur[t].path = "clone" =>
                        /\ cur[t].ops[1].cmd = "clone"
                        /\ \A k \in 1..Len(cur[t].ops) :
                              cur[t].ops[k].cmd \notin {"fetch", "pull"}
                        /\ cur[t].action \in {SyncActionCloned, SyncActionFailed}
                  /\ cur[t].path = "update" =>
                        /\ cur[t].ops[1].cmd = "fetch"
                        /\ \A k \in 1..Len(cur[t].ops) :
                              cur[t].ops[k].cmd # "clone"
                        /\ cur[t].action \in {SyncActionUpdated, SyncActionFailed}

\* one component was updated; the next one has a .git that is a file, not
\* a directory, and went down the clone path
C7_Witness ==
    \E t \in Threads :
        /\ pc[t] = "resolve"
        /\ cur[t].path = "clone" /\ cur[t].stat = "file"
        /\ \E i \in 1..Len(ResultsSeq) : ResultsSeq[i].Action = SyncActionUpdated

\* the step in which thread t calls UpdateResult for its component
Resolves(t) == pc[t] = "resolve" /\ pc'[t] # "resolve"

\* that call writes the worker's outcome into an in-progress record of
\* the component's name
Recorded(t) ==
    \E i \in Pending(ResultsSeq, cur[t].name) :
        ResultsSeq'[i] = SyncResult(cur[t].name, cur[t].action,
                                    cur[t].ver, cur[t].err, FALSE)

FailedOps(ops) == {k \in 1..Len(ops) : ops[k].err # Nil}

\* the error handed to UpdateResult wraps the error of the last operation
WrapsLast(err, ops) ==
    /\ err # Nil
    /\ Len(err) > Len(ops[Len(ops)].err)
    /\ SubSeq(err, Len(err) - Len(ops[Len(ops)].err) + 1, Len(err))
          = ops[Len(ops)].err

\* C8: on the clone path the engine runs clone and then, only if the
\* resolved version is non-empty, checkout of that version; after a failed
\* clone no checkout runs; a failure of either step is recorded as failed
\* with the underlying non-nil error and empty version; when both succeed
\* the record is cloned with the post-operation version and nil error.
C8_ClonePath ==
    [][\A t \in Threads : (Resolves(t) /\ cur[t].path = "clone") =>
          LET c == cur[t] IN
          /\ c.ops[1] = GitOp("", "clone", <<c.repoURL, <<c.name>>>>, c.ops[1].err)
          /\ c.ops[1].err # Nil => Len(c.ops) = 1
          /\ c.ops[1].err = Nil =>
                Len(c.ops) = (IF c.version # <<>> THEN 2 ELSE 1)
          /\ Len(c.ops) = 2 =>
                c.ops[2] = GitOp(c.name, "checkout", <<c.version>>, c.ops[2].err)
          /\ IF FailedOps(c.ops) # {}
             THEN /\ c.action = SyncActionFailed
                  /\ c.ver = ""
                  /\ WrapsLast(c.err, c.ops)
             ELSE /\ c.action = SyncActionCloned
                  /\ c.err = Nil
                  /\ c.ver = getCurrentVersion(Describe(c.version),
                                               AbbrevRef, ShortHash)
                  /\ c.ver # ""
          /\ Recorded(t)]_vars

\* one component is recorded as cloned; for the next one the clone went
\* through and the checkout of its version failed
C8_Witness ==
    \E t \in Threads :
        /\ pc[t] = "resolve" /\ cur[t].path = "clone"
        /\ Len(cur[t].ops) = 2 /\ cur[t].ops[2].err # Nil
        /\ cur[t].action = SyncActionFailed
        /\ \E i \in 1..Len(ResultsSeq) :
              /\ ResultsSeq[i].Action = SyncActionCloned
              /\ ResultsSeq[i].Version # "" /\ ResultsSeq[i].Error = Nil

\* C9 as stated: with a version the operations are fetch then checkout;
\* without a version the only operation is pull; updated when they
\* succeed, failed when one fails.
C9_PullAloneWithoutVersion ==
    [][\A t \in Threads : (Resolves(t) /\ cur[t].path = "update") =>
          LET c == cur[t] IN
          /\ c.version # <<>> =>
                Cmds(c.ops) \in {<<"fetch">>, <<"fetch", "checkout">>}
          /\ c.version = <<>> => Cmds(c.ops) = <<"pull">>
          /\ c.action = SyncActionUpdated <=> FailedOps(c.ops) = {}
          /\ c.action = SyncActionFailed <=> FailedOps(c.ops) # {}]_vars

\* C9 amended: on the update path fetch of all refs and tags always runs
\* first; a failed fetch ends the sequence; after it comes checkout of the
\* version when one was resolved and pull when none was; the component is
\* recorded as updated when both operations succeed and as failed, with
\* the error and an empty version, when one fails.
C9_FetchThenCheckoutOrPull ==
    [][\A t \in Threads : (Resolves(t) /\ cur[t].path = "update") =>
          LET c == cur[t] IN
          /\ c.ops[1] = GitOp(c.name, "fetch", <<<<"--all">>, <<"--tags">>>>,
                              c.ops[1].err)
          /\ c.ops[1].err # Nil => Len(c.ops) = 1
          /\ c.ops[1].err = Nil => Len(c.ops) = 2
          /\ Len(c.ops) = 2 =>
                c.ops[2] = (IF c.version # <<>>
                            THEN GitOp(c.name, "checkout", <<c.version>>, c.ops[2].err)
                            ELSE GitOp(c.name, "pull", <<>>, c.ops[2].err))
          /\ IF FailedOps(c.ops) # {}
             THEN /\ c.action = SyncActionFailed
                  /\ c.ver = ""
                  /\ WrapsLast(c.err, c.ops)
             ELSE /\ c.action = SyncActionUpdated
                  /\ c.err = Nil
          /\ Recorded(t)]_vars

\* an existing component without a version: fetch, then pull, updated
C9_Witness ==
    \E t \in Threads :
        /\ pc[t] = "resolve" /\ cur[t].path = "update"
        /\ cur[t].version = <<>>
        /\ Cmds(cur[t].ops) = <<"fetch", "pull">>
        /\ cur[t].action = SyncActionUpdated


ClaimedAndResolved(k) ==
    \E i \in 1..Len(ResultsSeq) :
        ResultsSeq[i].Name = comps[k].Name /\ Terminal(ResultsSeq[i])

CloneFailure(r) ==
    r.Action = SyncActionFailed /\ r.Error = <<"clone failed: ">> \o ExitError

\* C10 as stated: a component whose clone fails is recorded as failed with
\* a non-empty error, and when the run has ended every other component of
\* the work list has a terminal record all the same.
C10_OthersStillTerminal ==
    /\ \A t \in Threads :
          (pc[t] = "resolve" /\ cur[t].ops[1].cmd = "clone"
                             /\ cur[t].ops[1].err # Nil) =>
              cur[t].action = SyncActionFailed /\ Len(cur[t].err) > 0
    /\ (pc["main"] = "exited"
        /\ \E i \in 1..Len(ResultsSeq) : CloneFailure(ResultsSeq[i])) =>
           /\ \A k \in 1..Len(comps) : ClaimedAndResolved(k)
           /\ AllTerminal


\* every position of the work list has a terminal record and no record
\* is in-progress
Complete ==
    /\ \A k \in 1..Len(comps) : ClaimedAndResolved(k)
    /\ AllTerminal

\* C11 as stated: the progress model sets allDone (and quits) only in a
\* state where every component of the work list has a terminal record.
C11_AllDoneOnlyWhenComplete ==
    ui.allDone => Complete

\* C12 as stated: when the run has returned every component of the work
\* list has a terminal record, and no key press (q, ctrl+c) ends the run
\* with a component still unclaimed or in-progress.
C12_NoUserAbort ==
    /\ [](ui.quitting => Complete)
    /\ [][(pc["main"] # "exited" /\ pc'["main"] = "exited") => Complete']_vars

\* C13 as stated: the run ends with a non-zero exit code if and only if
\* some terminal record is failed.
C13_ExitCodeReflectsFailure ==
    pc["main"] = "exited" =>
        (handleWorkspaceSyncExit # 0 <=>
            \E i \in 1..Len(ResultsSeq) :
                /\ ~ResultsSeq[i].InProgress
                /\ ResultsSeq[i].Action = SyncActionFailed)


(***************************************************************************)
(* flattenComponents (SpecFlatten)                                         *)
(***************************************************************************)
\* no sync run and no store activity
IdleSync ==
    /\ EmptyStore
    /\ comps = <<>>
    /\ fs = [n \in Names |-> "absent"]
    /\ pc = [t \in Threads |-> "off"]
    /\ idx = [t \in Threads |-> 0]
    /\ cur = [t \in Threads |-> NoCur]
    /\ ui = [allDone |-> FALSE, quitting |-> FALSE, runErr |-> FALSE]

NodeNames == <<"core", "utils", "plugin", "extra", "more">>

\* the pointers in set S as a list, in the order of the manifest
RECURSIVE Listed(_)
Listed(S) ==
    IF S = {} THEN <<>>
    ELSE LET m == CHOOSE x \in S : \A y \in S : x <= y
         IN <<m>> \o Listed(S \ {m})

\* parent pointers that form a forest: every chain of parents ends at 0
RECURSIVE Rooted(_, _, _)
Rooted(par, c, fuel) ==
    IF c = 0 THEN TRUE
    ELSE IF fuel = 0 THEN FALSE
    ELSE Rooted(par, par[c], fuel - 1)

\* the Component structs ParseComponentFile builds for a manifest of n
\* components whose parents are par (0: a child of the root component)
Manifest(n, par) ==
    [node  |-> [c \in 1..n |->
                  [Name |-> NodeNames[c],
                   Components |-> Listed({d \in 1..n : par[d] = c})]],
     comps |-> Listed({d \in 1..n : par[d] = 0})]

Manifests ==
    {Manifest(n, par) : <<n, par>> \in
        {x \in UNION {{<<n, par>> : par \in [1..n -> 0..n]} : n \in 0..MaxNodes} :
            \A c \in 1..x[1] : Rooted(x[2], c, x[1])}}

\* make([]*Component, 0, len(comps)*2) on entry to flattenComponents
Frame(list) == [comps |-> list, i |-> 1, result |-> <<>>]

\* variant: the flattened subtree is put in front of the result
appendFront(result, sub) == sub \o result

\* result = append(result, flattenComponents(comp.Components)...)
appendAll(result, sub) == result \o sub

\* handleWorkspaceSync: len(comp.Components) == 0, nothing to flatten
NoComponents ==
    /\ ~flat.done /\ stack = <<>>
    /\ Len(tree.comps) = 0
    /\ flat' = [done |-> TRUE, list |-> <<>>]
    /\ UNCHANGED <<tree, stack>>
    /\ UNCHANGED notFlatten

\* handleWorkspaceSync: allComponents := flattenComponents(comp.Components)
FlattenCall ==
    /\ ~flat.done /\ stack = <<>>
    /\ Len(tree.comps) > 0
    /\ stack' = <<Frame(tree.comps)>>
    /\ UNCHANGED <<tree, flat>>
    /\ UNCHANGED notFlatten

\* one iteration of the range loop: append comp, and call
\* flattenComponents on its children when it has any
LoopAppend ==
    /\ stack # <<>>
    /\ LET top == Len(stack)
           f   == stack[top]
       IN
       /\ f.i <= Len(f.comps)
       /\ LET comp == f.comps[f.i]
              g    == [f EXCEPT !.result = Append(f.result, comp)]
          IN
          stack' =
            IF Len(tree.node[comp].Components) > 0
            THEN Append([stack EXCEPT ![top] = g],
                        Frame(tree.node[comp].Components))
            ELSE [stack EXCEPT ![top] = [g EXCEPT !.i = f.i + 1]]
    /\ UNCHANGED <<tree, flat>>
    /\ UNCHANGED notFlatten

\* return result: to the append in the caller's loop, or to
\* handleWorkspaceSync
FlattenReturn ==
    /\ stack # <<>>
    /\ LET top == Len(stack)
           f   == stack[top]
       IN
       /\ f.i > Len(f.comps)
       /\ IF top = 1
          THEN /\ flat' = [done |-> TRUE, list |-> f.result]
               /\ stack' = <<>>
          ELSE /\ stack' = [SubSeq(stack, 1, top - 1) EXCEPT ![top - 1] =
                              [result |-> appendAll(stack[top - 1].result, f.result),
                               i      |-> stack[top - 1].i + 1,
                               comps  |-> stack[top - 1].comps]]
               /\ UNCHANGED flat
    /\ UNCHANGED tree
    /\ UNCHANGED notFlatten

InitFlatten ==
    /\ IdleSync
    /\ tree \in Manifests
    /\ stack = <<>>
    /\ flat = [done |-> FALSE, list |-> <<>>]
    /\ NoBoot
    /\ NoOthers

NextFlatten ==
    \/ NoComponents
    \/ FlattenCall
    \/ LoopAppend
    \/ FlattenReturn

SpecFlatten == InitFlatten /\ [][NextFlatten]_vars

(***************************************************************************)
(* Properties of flattenComponents (SpecFlatten)                           *)
(***************************************************************************)
TreeNodes == DOMAIN tree.node

\* the descendants of component c
RECURSIVE Desc(_)
Desc(c) ==
    LET kids == {tree.node[c].Components[k] :
                    k \in 1..Len(tree.node[c].Components)}
    IN kids \cup UNION {Desc(d) : d \in kids}

Pos(list, c) == CHOOSE k \in 1..Len(list) : list[k] = c

KeepsOrder(list, siblings) ==
    \A i, j \in 1..Len(siblings) :
        i < j => Pos(list, siblings[i]) < Pos(list, siblings[j])

PreOrder(list) ==
    /\ Len(list) = Cardinality(TreeNodes)
    /\ \A c \in TreeNodes :
          Cardinality({k \in 1..Len(list) : list[k] = c}) = 1
    /\ \A k \in 1..Len(list) :
          {Pos(list, d) : d \in Desc(list[k])}
              = (k + 1)..(k + Cardinality(Desc(list[k])))
    /\ KeepsOrder(list, tree.comps)
    /\ \A c \in TreeNodes : KeepsOrder(list, tree.node[c].Components)

\* C14: flattenComponents returns every descendant of the child list
\* exactly once, in pre-order: each node is immediately followed by its own
\* flattened subtree, siblings keep their manifest order, the length is the
\* number of nodes; the input tree is not modified.
C14_FlattenPreOrder ==
    /\ [](flat.done => PreOrder(flat.list))
    /\ [][tree' = tree]_vars

\* a flattened manifest of MaxNodes components with two top-level
\* components, the first of which has a grandchild
C14_Witness ==
    /\ flat.done
    /\ Len(flat.list) = MaxNodes
    /\ Len(tree.comps) >= 2
    /\ \E c \in Desc(tree.comps[1]) : Desc(c) # {}


(***************************************************************************)
(* The boot command: ProcessDeps, Sort, Fetch (SpecBoot)                   *)
(***************************************************************************)
RepoConfig(base) == [nil |-> FALSE, Base |-> base]

ComponentRef(name, version, repo, repoconfig) ==
    [Name |-> name, Version |-> version, Repo |-> repo,
     Repoconfig |-> repoconfig]

\* the ComponentRef embedded in the Project
ProjectRef == ComponentRef(proj.Name, proj.Version, proj.Repo, proj.Repoconfig)

\* dependencies a project file may declare; the last one is the project
\* itself
DepPool ==
    {ComponentRef("lib1", "v1.0.0", <<"lib1.git">>, NilRepoConfig),
     ComponentRef("lib2", "v2.0.0", <<"lib2.git">>,
                  RepoConfig(<<"https://example.org/">>)),
     ComponentRef("top-app", "1.0.3", <<"monhang.git">>, NilRepoConfig)}

DepClasses == {"build", "runtime", "install"}

\* the declarations of a project file: class and dependency, in file order
Declarations ==
    UNION {[1..k -> DepClasses \X DepPool] : k \in 0..MaxDeps}

RECURSIVE OfClass(_, _)
OfClass(decl, class) ==
    IF decl = <<>> THEN <<>>
    ELSE (IF decl[1][1] = class THEN <<decl[1][2]>> ELSE <<>>)
         \o OfClass(Tail(decl), class)

\* the Project that ParseProjectFile returns
Project(repoconfig, decl) ==
    [Name |-> "top-app", Version |-> "1.0.3", Repo |-> <<"monhang.git">>,
     Repoconfig |-> repoconfig,
     Deps |-> [Build   |-> OfClass(decl, "build"),
               Runtime |-> OfClass(decl, "runtime"),
               Intall  |-> OfClass(decl, "install")]]

Projects ==
    {Project(rc, decl) :
        rc \in {NilRepoConfig, RepoConfig(<<"git@github.com:monhang/">>)},
        decl \in Declarations}

\* variant: the repoconfig is ignored
resolveRepoBare(comp) == comp.Repo

\* resolveRepo: repoconfig base + repo, or repo alone
resolveRepo(comp) ==
    IF ~comp.Repoconfig.nil
    THEN comp.Repoconfig.Base \o comp.Repo
    ELSE comp.Repo

\* the args ComponentRef.Fetch hands to git
Fetch(comp) == <<<<"clone">>, resolveRepo(comp), <<comp.Name>>>>

\* graph.MakeNode followed by *node.Value = value
MakeNode(g, value) == [g EXCEPT !.nodes = Append(@, value)]

\* graph.MakeEdge(from, to) on a directed graph
MakeEdge(g, from, to) == [g EXCEPT !.edges = Append(@, <<from, to>>)]

ProjectValue == [type |-> "*Project", ref |-> ProjectRef]
RefValue(dep) == [type |-> "ComponentRef", ref |-> dep]


\* node.edges of node n, in the order the edges were made
EdgesOf(g, n) == SelectSeq(g.edges, LAMBDA e : e[1] = n)

Reverse(seq) == [k \in 1..Len(seq) |-> seq[Len(seq) + 1 - k]]

\* graph.TopologicalSort: depth-first search from every unseen node in
\* creation order, each node appended to the finish list after the nodes
\* its edges lead to; the finish list reversed is the result
RECURSIVE dfs(_, _, _)
RECURSIVE dfsEdges(_, _, _, _)
dfs(g, n, st) ==
    LET seen == [st EXCEPT !.seen = @ \cup {n}]
        done == dfsEdges(g, EdgesOf(g, n), 1, seen)
    IN [done EXCEPT !.finish = Append(@, n)]

dfsEdges(g, es, k, st) ==
    IF k > Len(es) THEN st
    ELSE dfsEdges(g, es, k + 1,
                  IF es[k][2] \notin st.seen THEN dfs(g, es[k][2], st) ELSE st)

RECURSIVE dfsNodes(_, _, _)
dfsNodes(g, n, st) ==
    IF n > Len(g.nodes) THEN st
    ELSE dfsNodes(g, n + 1, IF n \notin st.seen THEN dfs(g, n, st) ELSE st)

TopologicalSort(g) ==
    Reverse(dfsNodes(g, 1, [seen |-> {}, finish |-> <<>>]).finish)

\* the dependency list the loop at position pos ranges over
DepList(pos) ==
    IF pos = "build" THEN proj.Deps.Build
    ELSE IF pos = "runtime" THEN proj.Deps.Runtime
    ELSE proj.Deps.Build

\* runBoot (package monhang) calls proj.ProcessDeps(): graph.New,
\* MakeNode for the project, *proj.node.Value = proj
ProcessDepsEnter ==
    /\ boot.pc = "start"
    /\ graph' = MakeNode([nodes |-> <<>>, edges |-> <<>>], ProjectValue)
    /\ boot' = [pc |-> "build", i |-> 1]
    /\ UNCHANGED <<proj, sorted, git>>
    /\ UNCHANGED notBoot

\* one iteration of the build or the runtime loop of ProcessDeps: the loop
\* copy dep inherits the project's repoconfig (the debug log reads
\* proj.Repoconfig.Base and panics on nil), then gets a node holding the
\* copy and an edge from the project node
ProcessDep ==
    /\ boot.pc \in {"build", "runtime"}
    /\ boot.i <= Len(DepList(boot.pc))
    /\ LET dep == DepList(boot.pc)[boot.i] IN
       IF dep.Repoconfig.nil /\ proj.Repoconfig.nil
       THEN /\ boot' = [boot EXCEPT !.pc = "panic"]
            /\ UNCHANGED graph
       ELSE LET d == IF dep.Repoconfig.nil
                     THEN [dep EXCEPT !.Repoconfig = proj.Repoconfig]
                     ELSE dep
                g == MakeNode(graph, RefValue(d))
            IN /\ graph' = MakeEdge(g, 1, Len(g.nodes))
               /\ boot' = [boot EXCEPT !.i = @ + 1]
    /\ UNCHANGED <<proj, sorted, git>>
    /\ UNCHANGED notBoot

\* the end of the build loop, then of the runtime loop; ProcessDeps returns
LoopEnd ==
    /\ boot.pc \in {"build", "runtime"}
    /\ boot.i > Len(DepList(boot.pc))
    /\ boot' = [pc |-> IF boot.pc = "build" THEN "runtime" ELSE "sort", i |-> 1]
    /\ UNCHANGED <<proj, graph, sorted, git>>
    /\ UNCHANGED notBoot

\* the earlier ProcessDeps / processDeps: entered from the runBoot that
\* only builds and sorts
processDepsEnter ==
    /\ boot.pc = "start"
    /\ graph' = MakeNode([nodes |-> <<>>, edges |-> <<>>], ProjectValue)
    /\ boot' = [pc |-> "build2", i |-> 1]
    /\ UNCHANGED <<proj, sorted, git>>
    /\ UNCHANGED notBoot

\* one iteration of its loop over the build dependencies: the node gets
\* the copy dep as declared; only afterwards the copy inherits the
\* project's repoconfig (the debug log dereferences proj.Repoconfig)
processDep ==
    /\ boot.pc = "build2"
    /\ boot.i <= Len(proj.Deps.Build)
    /\ LET dep == proj.Deps.Build[boot.i]
           g   == MakeNode(graph, RefValue(dep))
       IN /\ graph' = MakeEdge(g, 1, Len(g.nodes))
          /\ boot' = IF dep.Repoconfig.nil /\ proj.Repoconfig.nil
                     THEN [boot EXCEPT !.pc = "panic"]
                     ELSE [boot EXCEPT !.i = @ + 1]
    /\ UNCHANGED <<proj, sorted, git>>
    /\ UNCHANGED notBoot

processDepsReturn ==
    /\ boot.pc = "build2"
    /\ boot.i > Len(proj.Deps.Build)
    /\ boot' = [pc |-> "sort2", i |-> 1]
    /\ UNCHANGED <<proj, graph, sorted, git>>
    /\ UNCHANGED notBoot

\* var config Project: every field zero, config.graph a nil *graph.Graph
ZeroProject ==
    [Name |-> "", Version |-> "", Repo |-> <<>>,
     Repoconfig |-> NilRepoConfig, Deps |-> NoDeps]

\* runBuild: declares config and calls config.Sort()
runBuild ==
    /\ boot.pc = "start"
    /\ proj' = ZeroProject
    /\ boot' = [pc |-> "sort0", i |-> 0]
    /\ UNCHANGED <<graph, sorted, git>>
    /\ UNCHANGED notBoot

\* proj.Sort(); the runBoot that only builds and sorts returns after it.
\* Called by runBuild, proj.graph is nil and TopologicalSort dereferences
\* it: the command panics
Sort ==
    /\ boot.pc \in {"sort", "sort2", "sort0"}
    /\ IF boot.pc = "sort0"
       THEN /\ boot' = [boot EXCEPT !.pc = "panic"]
            /\ UNCHANGED sorted
       ELSE /\ sorted' = TopologicalSort(graph)
            /\ boot' = [pc |-> IF boot.pc = "sort" THEN "fetch" ELSE "done",
                        i |-> 1]
    /\ UNCHANGED <<proj, graph, git>>
    /\ UNCHANGED notBoot

\* one iteration of the fetch loop of runBoot: a node whose value is not a
\* ComponentRef is skipped; git ends the process when the command fails
FetchNode ==
    /\ boot.pc = "fetch"
    /\ boot.i <= Len(sorted)
    /\ LET value == graph.nodes[sorted[boot.i]] IN
       IF value.type = "ComponentRef"
       THEN /\ git' = Append(git, Fetch(value.ref))
            /\ \E ok \in BOOLEAN :
                  boot' = IF ok THEN [boot EXCEPT !.i = @ + 1]
                          ELSE [boot EXCEPT !.pc = "fatal"]
       ELSE /\ UNCHANGED git
            /\ boot' = [boot EXCEPT !.i = @ + 1]
    /\ UNCHANGED <<proj, graph, sorted>>
    /\ UNCHANGED notBoot

\* "All dependencies fetched successfully"
BootDone ==
    /\ boot.pc = "fetch"
    /\ boot.i > Len(sorted)
    /\ boot' = [boot EXCEPT !.pc = "done"]
    /\ UNCHANGED <<proj, graph, sorted, git>>
    /\ UNCHANGED notBoot

\* runBoot of the cobra boot command: proj.Fetch() and nothing else
bootCmd ==
    /\ boot.pc = "start"
    /\ git' = Append(git, Fetch(ProjectRef))
    /\ \E ok \in BOOLEAN :
          boot' = [boot EXCEPT !.pc = IF ok THEN "done" ELSE "fatal"]
    /\ UNCHANGED <<proj, graph, sorted>>
    /\ UNCHANGED notBoot

InitBoot ==
    /\ IdleSync
    /\ NoFlatten
    /\ NoOthers
    /\ proj \in Projects
    /\ graph = [nodes |-> <<>>, edges |-> <<>>]
    /\ sorted = <<>>
    /\ git = <<>>
    /\ boot = [pc |-> "start", i |-> 0]

NextBoot ==
    \/ ProcessDepsEnter
    \/ ProcessDep
    \/ LoopEnd
    \/ processDepsEnter
    \/ processDep
    \/ processDepsReturn
    \/ Sort
    \/ FetchNode
    \/ BootDone
    \/ bootCmd
    \/ runBuild

SpecBoot == InitBoot /\ [][NextBoot]_vars


(***************************************************************************)
(* Properties of the boot command (SpecBoot)                               *)
(***************************************************************************)
\* ProcessDeps has returned
GraphBuilt == boot.pc \in {"sort", "sort2", "fetch", "done"} /\ graph.nodes # <<>>

\* Sort has returned
GraphSorted == boot.pc \in {"fetch", "done"} /\ graph.nodes # <<>>

Place(n) == CHOOSE k \in 1..Len(sorted) : sorted[k] = n

\* C15 as stated: in the order produced by Sort and iterated by boot every
\* dependency comes before the project that owns it.
C15_DependencyBeforeOwner ==
    GraphSorted =>
        \A e \in 1..Len(graph.edges) :
            Place(graph.edges[e][2]) < Place(graph.edges[e][1])

Declared == proj.Deps.Build \o proj.Deps.Runtime \o proj.Deps.Intall

\* the project is declared as a dependency of itself
DeclaresCycle ==
    \E k \in 1..Len(Declared) :
        Declared[k].Name = proj.Name /\ Declared[k].Repo = proj.Repo

\* C16 as stated: a dependency graph containing a cycle is rejected before
\* any fetch, and never sorted.
C16_CycleRejected ==
    DeclaresCycle =>
        /\ git = <<>>
        /\ sorted = <<>>
        /\ boot.pc # "done"

\* C17 as stated: the ComponentRef stored in the graph node of a dependency
\* that declares no repoconfig carries the project's repoconfig, and a
\* dependency with its own repoconfig keeps it.
C17_NodeInheritsRepoconfig ==
    \A k \in 2..Len(graph.nodes) :
        LET decl == (proj.Deps.Build \o proj.Deps.Runtime)[k - 1]
            ref  == graph.nodes[k].ref
        IN /\ graph.nodes[k].type = "ComponentRef"
           /\ ref.Name = decl.Name
           /\ IF decl.Repoconfig.nil
              THEN /\ ref.Repoconfig = proj.Repoconfig
                   /\ Fetch(ref)[2] = proj.Repoconfig.Base \o decl.Repo
              ELSE ref.Repoconfig = decl.Repoconfig

\* C18 as stated: after ProcessDeps the graph has one node for the project
\* plus one for every declared build, runtime and install dependency, and
\* exactly one edge from the project node to each dependency node.
C18_NodePerDeclaredDependency ==
    GraphBuilt =>
        /\ Len(graph.nodes) = 1 + Len(Declared)
        /\ graph.nodes[1].type = "*Project"
        /\ \A k \in 2..Len(graph.nodes) :
              Cardinality({e \in 1..Len(graph.edges) :
                              graph.edges[e] = <<1, k>>}) = 1
        /\ Len(graph.edges) = Len(graph.nodes) - 1

\* the components boot is to fetch: the project and what it declares
ToFetch == <<ProjectRef>> \o Declared

\* C19 as stated: after a successful boot Fetch has been invoked exactly
\* once for the top-level component and exactly once for each dependency.
C19_FetchesProjectAndDependencies ==
    boot.pc = "done" =>
        /\ Len(git) = Len(ToFetch)
        /\ \A c \in 1..Len(ToFetch) :
              Cardinality({k \in 1..Len(git) : git[k][3] = <<ToFetch[c].Name>>})
                = Cardinality({d \in 1..Len(ToFetch) :
                                  ToFetch[d].Name = ToFetch[c].Name})

\* the component whose Fetch runs in the step taken from this state
Fetched ==
    IF boot.pc = "start" THEN ProjectRef ELSE graph.nodes[sorted[boot.i]].ref

\* C20: ComponentRef.Fetch invokes the git runner exactly once with
\* exactly three arguments: "clone", the resolved repository (repoconfig
\* base concatenated with repo when a repoconfig is present, otherwise
\* repo unchanged) and the component name.
C20_FetchClonesResolvedRepo ==
    [][git' # git =>
          /\ Len(git') = Len(git) + 1
          /\ SubSeq(git', 1, Len(git)) = git
          /\ LET args == git'[Len(git')] IN
             /\ Len(args) = 3
             /\ args[1] = <<"clone">>
             /\ args[2] = (IF Fetched.Repoconfig.nil
                           THEN Fetched.Repo
                           ELSE Fetched.Repoconfig.Base \o Fetched.Repo)
             /\ args[3] = <<Fetched.Name>>]_vars

\* two fetches: one with the base the dependency declares itself, one
\* with the base inherited from the project
C20_Witness ==
    \E j, k \in 1..Len(git) :
        /\ git[j] = <<<<"clone">>, <<"https://example.org/", "lib2.git">>, <<"lib2">>>>
        /\ git[k] = <<<<"clone">>, <<"git@github.com:monhang/", "lib1.git">>, <<"lib1">>>>


(***************************************************************************)
(* The exec command: RepoExecutor (SpecExec)                               *)
(***************************************************************************)
RepoNames == <<"repo1", "repo2", "repo3">>

\* command strings, by character class: "" , " " and "make"
Commands == {<<>>, <<" ">>, <<"make">>}

\* variant: every character makes a field, blanks included
FieldsKeepsBlanks(command) == command

\* strings.Fields
Fields(command) == SelectSeq(command, LAMBDA c : c # " ")

\* what the subprocess writes, in order, when it runs to the end
Script ==
    <<[fd |-> "stdout", line |-> "out1"],
      [fd |-> "stderr", line |-> "err1"],
      [fd |-> "stdout", line |-> "out2"]>>

\* &RepoResult{Name, Path, Command, StartTime: time.Now(), Running: true};
\* path is filepath.Join(".", name)
RepoResult(name, command) ==
    [Name |-> name, Path |-> <<name>>, Command |-> command,
     StartTime |-> TRUE, EndTime |-> FALSE, Error |-> Nil,
     Output |-> <<>>, ExitCode |-> 0, Running |-> TRUE]

NoResult ==
    [Name |-> "", Path |-> <<>>, Command |-> <<>>,
     StartTime |-> FALSE, EndTime |-> FALSE, Error |-> Nil,
     Output |-> <<>>, ExitCode |-> 0, Running |-> FALSE]

Calls == 1..Len(job.repos)

\* re.mu: w is the holder of Lock (call i, -i for its live-output
\* goroutine, 0 for none), r the holders of RLock
ReCanLock == re.mu.w = 0 /\ re.mu.r = {}
ReCanRLock == re.mu.w = 0

ExecAlive == job.pc \notin {"off", "exited"}

\* runNonInteractiveMode and RunInteractiveMode, parallel: one goroutine per
\* repo; the interactive mode goes on to start the UI
SpawnAll ==
    /\ job.pc = "start" /\ job.parallel
    /\ execs' = [i \in Calls |-> [execs[i] EXCEPT !.pc = "spawned"]]
    /\ job' = [job EXCEPT !.pc = "running"]
    /\ view' = IF job.interactive THEN [view EXCEPT !.pc = "ui"] ELSE view
    /\ UNCHANGED <<re, objs, scanner>>
    /\ UNCHANGED notExec

\* sequential: the range loop is entered (in a goroutine of its own in the
\* interactive mode, which goes on to start the UI)
SeqLoop ==
    /\ job.pc = "start" /\ ~job.parallel
    /\ job' = [job EXCEPT !.pc = "running"]
    /\ view' = IF job.interactive THEN [view EXCEPT !.pc = "ui"] ELSE view
    /\ UNCHANGED <<re, objs, execs, scanner>>
    /\ UNCHANGED notExec

\* variant: the sequential loop does not wait for the previous call
MayBeginAtOnce(i) ==
    /\ job.pc = "running"
    /\ execs[i].pc = IF job.parallel THEN "spawned" ELSE "idle"

\* call i of ExecuteCommand may begin
MayBegin(i) ==
    /\ job.pc = "running"
    /\ IF job.parallel
       THEN execs[i].pc = "spawned"
       ELSE /\ execs[i].pc = "idle"
            /\ i > 1 => execs[i - 1].pc = "returned"

\* ExecuteCommand: result := &RepoResult{...}; re.mu.Lock();
\* re.results[name] = result
Publish(i) ==
    /\ ExecAlive
    /\ MayBegin(i)
    /\ ReCanLock
    /\ objs' = [objs EXCEPT ![i] = RepoResult(job.repos[i], job.command)]
    /\ re' = [re EXCEPT !.mu.w = i, !.results[job.repos[i]] = i]
    /\ execs' = [execs EXCEPT ![i].pc = "published"]
    /\ UNCHANGED <<job, scanner, view>>
    /\ UNCHANGED notExec

\* re.mu.Unlock(); cmdArgs := strings.Fields(command); with a command the
\* subprocess is set up and, with liveOutput, the scanner goroutine started
Published(i) ==
    /\ ExecAlive
    /\ execs[i].pc = "published"
    /\ re' = [re EXCEPT !.mu.w = 0]
    /\ IF Len(Fields(job.command)) = 0
       THEN /\ execs' = [execs EXCEPT ![i].pc = "emptyError"]
            /\ UNCHANGED scanner
       ELSE /\ execs' = [execs EXCEPT ![i].pc = "run"]
            /\ scanner' = IF re.liveOutput
                          THEN [scanner EXCEPT ![i].pc = "scan"]
                          ELSE scanner
    /\ UNCHANGED <<objs, job, view>>
    /\ UNCHANGED notExec

\* result.Error = fmt.Errorf("empty command")
EmptyError(i) ==
    /\ ExecAlive
    /\ execs[i].pc = "emptyError"
    /\ objs' = [objs EXCEPT ![i].Error = <<"empty command">>]
    /\ execs' = [execs EXCEPT ![i].pc = "emptyRunning"]
    /\ UNCHANGED <<re, job, scanner, view>>
    /\ UNCHANGED notExec

\* result.Running = false
EmptyRunning(i) ==
    /\ ExecAlive
    /\ execs[i].pc = "emptyRunning"
    /\ objs' = [objs EXCEPT ![i].Running = FALSE]
    /\ execs' = [execs EXCEPT ![i].pc = "emptyEndTime"]
    /\ UNCHANGED <<re, job, scanner, view>>
    /\ UNCHANGED notExec

\* result.EndTime = time.Now(); return
EmptyEndTime(i) ==
    /\ ExecAlive
    /\ execs[i].pc = "emptyEndTime"
    /\ objs' = [objs EXCEPT ![i].EndTime = TRUE]
    /\ execs' = [execs EXCEPT ![i].pc = "returned"]
    /\ UNCHANGED <<re, job, scanner, view>>
    /\ UNCHANGED notExec


\* the subprocess writes its next line: to outputBuf, and with liveOutput
\* stdout goes to stdoutBuf as well (io.MultiWriter)
CmdWrite(i) ==
    /\ ExecAlive
    /\ execs[i].pc = "run"
    /\ execs[i].todo # <<>>
    /\ LET w == Head(execs[i].todo)
       IN execs' = [execs EXCEPT
              ![i].todo = Tail(@),
              ![i].outputBuf = Append(@, w.line),
              ![i].stdoutBuf = IF re.liveOutput /\ w.fd = "stdout"
                               THEN Append(@, w.line) ELSE @]
    /\ UNCHANGED <<re, objs, job, scanner, view>>
    /\ UNCHANGED notExec

\* err := cmd.Run() returns: nil, an *exec.ExitError, or another error when
\* the command could not be started
CmdRun(i) ==
    /\ ExecAlive
    /\ execs[i].pc = "run"
    /\ \E err \in {"nil", "ExitError", "other"} :
          /\ IF err = "other"
             THEN execs[i].outputBuf = <<>>
             ELSE execs[i].todo = <<>>
          /\ execs' = [execs EXCEPT ![i].pc = "complete", ![i].err = err]
    /\ UNCHANGED <<re, objs, job, scanner, view>>
    /\ UNCHANGED notExec

\* exitErr.ExitCode() of a failed command, -1 for other errors
exitCode(err) ==
    CASE err = "nil" -> 0
      [] err = "ExitError" -> 1
      [] OTHER -> -1

\* re.mu.Lock(); result.Output = outputBuf.String(); result.Error = err;
\* result.Running = false; result.EndTime = time.Now(); result.ExitCode
Complete_(i) ==
    /\ ExecAlive
    /\ execs[i].pc = "complete"
    /\ ReCanLock
    /\ re' = [re EXCEPT !.mu.w = i]
    /\ objs' = [objs EXCEPT
           ![i].Output = execs[i].outputBuf,
           ![i].Error = IF execs[i].err = "nil" THEN Nil ELSE <<execs[i].err>>,
           ![i].Running = FALSE,
           ![i].EndTime = TRUE,
           ![i].ExitCode = exitCode(execs[i].err)]
    /\ execs' = [execs EXCEPT ![i].pc = "completed"]
    /\ UNCHANGED <<job, scanner, view>>
    /\ UNCHANGED notExec

\* return: the deferred re.mu.Unlock()
Return(i) ==
    /\ ExecAlive
    /\ execs[i].pc = "completed"
    /\ re' = [re EXCEPT !.mu.w = 0]
    /\ execs' = [execs EXCEPT ![i].pc = "returned"]
    /\ UNCHANGED <<objs, job, scanner, view>>
    /\ UNCHANGED notExec

\* the live-output goroutine: scanner.Scan() finds a line in stdoutBuf
ScanLine(i) ==
    /\ ExecAlive
    /\ scanner[i].pc = "scan"
    /\ scanner[i].read < Len(execs[i].stdoutBuf)
    /\ scanner' = [scanner EXCEPT
           ![i].pc = "line",
           ![i].read = @ + 1,
           ![i].line = execs[i].stdoutBuf[scanner[i].read + 1]]
    /\ UNCHANGED <<re, objs, job, execs, view>>
    /\ UNCHANGED notExec

\* scanner.Scan() finds stdoutBuf drained: io.EOF, the goroutine ends
ScanEOF(i) ==
    /\ ExecAlive
    /\ scanner[i].pc = "scan"
    /\ scanner[i].read = Len(execs[i].stdoutBuf)
    /\ scanner' = [scanner EXCEPT ![i].pc = "ended"]
    /\ UNCHANGED <<re, objs, job, execs, view>>
    /\ UNCHANGED notExec

\* re.mu.Lock(); result.Output += line + "\n"
ScanAppend(i) ==
    /\ ExecAlive
    /\ scanner[i].pc = "line"
    /\ ReCanLock
    /\ re' = [re EXCEPT !.mu.w = -i]
    /\ objs' = [objs EXCEPT ![i].Output = Append(@, scanner[i].line)]
    /\ scanner' = [scanner EXCEPT ![i].pc = "locked"]
    /\ UNCHANGED <<job, execs, view>>
    /\ UNCHANGED notExec

\* re.mu.Unlock(); fmt.Printf; next iteration
ScanUnlock(i) ==
    /\ ExecAlive
    /\ scanner[i].pc = "locked"
    /\ re' = [re EXCEPT !.mu.w = 0]
    /\ scanner' = [scanner EXCEPT ![i].pc = "scan"]
    /\ UNCHANGED <<objs, job, execs, view>>
    /\ UNCHANGED notExec

\* GetResults: the copy of every published record
Copies == [n \in DOMAIN re.results |->
              IF re.results[n] = 0 THEN NoResult ELSE objs[re.results[n]]]

\* wg.Wait() is over, or the sequential loop is: runNonInteractiveMode returns
ModeReturn ==
    /\ job.pc = "running" /\ ~job.interactive
    /\ \A i \in Calls : execs[i].pc = "returned"
    /\ job' = [job EXCEPT !.pc = "returned"]
    /\ UNCHANGED <<re, objs, execs, scanner, view>>
    /\ UNCHANGED notExec

\* runExec: PrintResults(repos, executor.GetResults()), exit status 1 when
\* a record has an error
PrintResults ==
    /\ job.pc = "returned"
    /\ ReCanRLock
    /\ view' = [view EXCEPT !.results = Copies]
    /\ job' = [job EXCEPT
           !.pc = "exited",
           !.exit = IF \E n \in DOMAIN Copies :
                          re.results[n] # 0 /\ Copies[n].Error # Nil
                    THEN 1 ELSE 0]
    /\ UNCHANGED <<re, objs, execs, scanner>>
    /\ UNCHANGED notExec

\* model.Update, tickMsg: GetResults takes re.mu.RLock()
ExecTickRLock ==
    /\ ExecAlive
    /\ view.pc = "ui"
    /\ ReCanRLock
    /\ re' = [re EXCEPT !.mu.r = {"ui"}]
    /\ view' = [view EXCEPT !.pc = "copy"]
    /\ UNCHANGED <<objs, job, execs, scanner>>
    /\ UNCHANGED notExec

\* GetResults copies and unlocks; m.results and m.allDone are set
ExecTick ==
    /\ ExecAlive
    /\ view.pc = "copy"
    /\ re' = [re EXCEPT !.mu.r = {}]
    /\ view' = [view EXCEPT
           !.pc = "ui",
           !.results = Copies,
           !.allDone = \A n \in DOMAIN Copies :
                          re.results[n] # 0 => ~Copies[n].Running]
    /\ UNCHANGED <<objs, job, execs, scanner>>
    /\ UNCHANGED notExec

\* model.Update, "q" or ctrl+c: tea.Quit, RunInteractiveMode returns and the
\* process ends
ExecKeyQuit ==
    /\ job.pc = "running" /\ job.interactive
    /\ view.pc = "ui"
    /\ job' = [job EXCEPT !.pc = "exited"]
    /\ UNCHANGED <<re, objs, execs, scanner, view>>
    /\ UNCHANGED notExec

\* the repos argument: the first k names, or the same name twice
RepoLists ==
    {[i \in 1..k |-> RepoNames[i]] : k \in 1..MaxRepos}
        \cup {<<RepoNames[1], RepoNames[1]>>}

InitExec ==
    /\ IdleSync /\ NoFlatten /\ NoBoot /\ NoResolve /\ NoVersion /\ NoGit
    /\ \E repos \in RepoLists, command \in Commands,
          parallel \in BOOLEAN, interactive \in BOOLEAN, live \in BOOLEAN,
          n \in {0, MaxLines} :
          /\ Fields(command) = <<>> => n = 0
          /\ job = [repos |-> repos, command |-> command,
                    parallel |-> parallel, interactive |-> interactive,
                    pc |-> "start", exit |-> 0]
          \* NewRepoExecutor(*execLive && !*execInteractive)
          /\ re = [results |-> [r \in {repos[i] : i \in 1..Len(repos)} |-> 0],
                   mu |-> [w |-> 0, r |-> {}],
                   liveOutput |-> live /\ ~interactive]
          /\ objs = [i \in 1..Len(repos) |-> NoResult]
          /\ execs = [i \in 1..Len(repos) |->
                        [pc |-> "idle", todo |-> SubSeq(Script, 1, n),
                         outputBuf |-> <<>>, stdoutBuf |-> <<>>, err |-> "nil"]]
          /\ scanner = [i \in 1..Len(repos) |->
                          [pc |-> "off", read |-> 0, line |-> ""]]
          /\ view = [pc |-> "off", results |-> <<>>, allDone |-> FALSE]

NextExec ==
    \/ SpawnAll
    \/ SeqLoop
    \/ \E i \in Calls :
          \/ Publish(i)
          \/ Published(i)
          \/ EmptyError(i)
          \/ EmptyRunning(i)
          \/ EmptyEndTime(i)
          \/ CmdWrite(i)
          \/ CmdRun(i)
          \/ Complete_(i)
          \/ Return(i)
          \/ ScanLine(i)
          \/ ScanEOF(i)
          \/ ScanAppend(i)
          \/ ScanUnlock(i)
    \/ ModeReturn
    \/ PrintResults
    \/ ExecTickRLock
    \/ ExecTick
    \/ ExecKeyQuit

SpecExec == InitExec /\ [][NextExec]_vars


(***************************************************************************)
(* Claims about the exec command                                           *)
(***************************************************************************)
\* the command is empty or made of white space only
Blank(command) == \A k \in 1..Len(command) : command[k] = " "

\* a subprocess was started for call i
Spawned(i) == execs[i].pc \in {"run", "complete", "completed"}
                 \/ (execs[i].pc = "returned" /\ objs[i].Error # <<"empty command">>)

\* C21: with an empty or white-space-only command, ExecuteCommand starts no
\* subprocess (and no live-output goroutine) for any component, and each call
\* that has returned left its own record with Running false, the error
\* "empty command" and no output.
C21_EmptyCommandRecord ==
    Blank(job.command) =>
        \A i \in DOMAIN execs :
            /\ ~Spawned(i)
            /\ scanner[i].pc = "off"
            /\ execs[i].pc = "returned" =>
                   /\ objs[i].Name = job.repos[i]
                   /\ ~objs[i].Running
                   /\ objs[i].Error = <<"empty command">>
                   /\ objs[i].Output = <<>>
                   /\ objs[i].EndTime

C21_Witness ==
    /\ job.command = <<" ">>
    /\ Len(job.repos) = 2
    /\ job.repos[1] # job.repos[2]
    /\ \A i \in DOMAIN execs : execs[i].pc = "returned"

\* C22: no snapshot returned by GetResults holds a partially updated record:
\* none has its Error set while Running is still true.
C22_SnapshotNeverTorn ==
    \A n \in DOMAIN view.results :
        view.results[n].Error # Nil => ~view.results[n].Running

\* C23: with live output, once ExecuteCommand has returned for a command
\* that ran, the record's Output is the complete combined output, each line
\* once.
C23_OutputOnceAfterReturn ==
    \A i \in DOMAIN execs :
        (re.liveOutput /\ execs[i].pc = "returned" /\ ~Blank(job.command))
            => objs[i].Output = execs[i].outputBuf

\* the name of call i is the name of no other call
DistinctName(i) == \A j \in DOMAIN execs : j # i => job.repos[j] # job.repos[i]

\* C24: when runNonInteractiveMode has returned, every component with a
\* distinct name has its one record, with Running false; in the sequential
\* mode no call has begun before the call before it has returned with its
\* record finished.
C24_AllFinishedOnReturn ==
    ~job.interactive =>
        /\ job.pc \in {"returned", "exited"} =>
               \A i \in DOMAIN execs :
                   DistinctName(i) =>
                       /\ re.results[job.repos[i]] = i
                       /\ objs[i].Name = job.repos[i]
                       /\ ~objs[i].Running
        /\ ~job.parallel =>
               \A i \in DOMAIN execs :
                   (i > 1 /\ execs[i].pc # "idle") =>
                       /\ execs[i - 1].pc = "returned"
                       /\ objs[i - 1].StartTime /\ ~objs[i - 1].Running

C24_Witness ==
    /\ ~job.interactive /\ ~job.parallel
    /\ job.pc = "returned"
    /\ Len(job.repos) = 2
    /\ job.repos[1] # job.repos[2]
    /\ execs[1].err = "ExitError"


(***************************************************************************)
(* The components package: resolving a component's source (SpecResolve)    *)
(***************************************************************************)
DefaultRepoType == <<"git">>

\* variant: the query string is left on the URL
components_parseSourceURLKeepsQuery(source) ==
    LET u == urlParse(source) IN
    IF ~u.ok
    THEN [repoURL |-> source, version |-> <<>>, repoType |-> DefaultRepoType]
    ELSE [repoURL  |-> urlString(u),
          version  |-> queryGet(u.RawQuery, "version"),
          repoType |-> DefaultRepoType]

\* parseSourceURL of package components
components_parseSourceURL(source) ==
    LET u == urlParse(source) IN
    IF ~u.ok
    THEN [repoURL |-> source, version |-> <<>>, repoType |-> DefaultRepoType]
    ELSE LET clean == urlString([u EXCEPT !.RawQuery = <<>>])
             gitp  == <<"git", ":", "/", "/">>
             type  == queryGet(u.RawQuery, "type")
         IN  [repoURL  |-> IF HasPrefix(clean, gitp)
                           THEN <<"https", ":", "/", "/">>
                                \o SubSeq(clean, Len(gitp) + 1, Len(clean))
                           ELSE clean,
              version  |-> queryGet(u.RawQuery, "version"),
              repoType |-> IF type = <<>> THEN DefaultRepoType ELSE type]

\* Component.ResolveRepo
ResolveRepo(comp) ==
    IF comp.Source = <<>> THEN <<>>
    ELSE components_parseSourceURL(comp.Source).repoURL

\* Component.GetVersion
GetVersion(comp) ==
    IF comp.Source = <<>> THEN comp.Version
    ELSE LET version == components_parseSourceURL(comp.Source).version
         IN  IF version # <<>> THEN version ELSE comp.Version

\* Component.GetType
GetType(comp) ==
    IF comp.Source = <<>> THEN DefaultRepoType
    ELSE components_parseSourceURL(comp.Source).repoType

\* a path component without its trailing ".git"
TrimGit(word) ==
    CASE word = "repo.git" -> "repo"
      [] word = ".git" -> ""
      [] OTHER -> word

\* deriveNameFromURL: the last path component of the URL or SCP path,
\* without query, trailing separator and ".git"; "component" when nothing
\* is left
deriveNameFromURL(repoURL) ==
    LET q    == IndexIn(repoURL, {"?"}, 1)
        noq  == IF q = 0 THEN repoURL ELSE Before(repoURL, q)
        trim == IF noq # <<>> /\ noq[Len(noq)] = "/"
                THEN Before(noq, Len(noq)) ELSE noq
        last == IF trim = <<>> \/ trim[Len(trim)] \in Seps
                THEN "" ELSE TrimGit(trim[Len(trim)])
    IN  IF last \in {"", "."} THEN "component" ELSE last

\* Component.GetName: the explicit name, else the derived one
GetName(comp) ==
    IF comp.Name # <<>> THEN comp.Name
    ELSE <<deriveNameFromURL(comp.Source)>>

\* the pieces source strings are put together from
Schemes == {<<"git">>, <<"https">>, <<"http">>, <<"file">>, <<"ssh">>}

HostPaths ==
    {<<"h", "/", "org", "/", "repo.git">>,
     <<"git", "@", "h", "/", "org", "/", "repo.git">>,
     <<"h", ":", "22", "/", "repo.git">>,
     <<"/", "path", "/", "repo.git">>}

\* a query string with the values of version and type it carries
QueryForm(q, version, type) == [q |-> q, version |-> version, type |-> type]

QueryForms ==
    {QueryForm(<<>>, <<>>, <<>>),
     QueryForm(<<"?">>, <<>>, <<>>),
     QueryForm(<<"?", "version", "=", "v1">>, <<"v1">>, <<>>),
     QueryForm(<<"?", "type", "=", "svn">>, <<>>, <<"svn">>),
     QueryForm(<<"?", "version", "=", "v1", "&", "type", "=", "svn">>,
               <<"v1">>, <<"svn">>),
     QueryForm(<<"?", "type", "=", "svn", "&", "version", "=", "v1">>,
               <<"v1">>, <<"svn">>),
     QueryForm(<<"?", "depth", "=", "n1">>, <<>>, <<>>)}

\* scheme://host/path?query
URLSource(scheme, hp, q) == scheme \o <<":", "/", "/">> \o hp \o q.q

\* user@host:path?query
SCPPath == <<"git", "@", "h", ":", "org", "/", "repo.git">>
SCPSource(q) == SCPPath \o q.q

\* no source, no scheme before the colon, a bare path, a port that is no
\* number
OddSources ==
    {<<>>,
     <<":", "/", "/", "h">>,
     <<"h", "/", "org", "/", "repo.git">>,
     <<"git", ":", "/", "/", "h", ":", "x", "/", "repo.git">>}

Sources ==
    {URLSource(s, hp, q) : s \in Schemes, hp \in HostPaths, q \in QueryForms}
        \cup {SCPSource(q) : q \in QueryForms}
        \cup OddSources

\* the name field of a manifest entry: absent or given
ComponentNames == {<<>>, <<"lib">>}

\* the version field of a manifest entry: absent or given
ComponentVersions == {<<>>, <<"v2">>}

\* the methods of Component are applied to the component
ResolveComponent ==
    /\ resolution.pc = "start"
    /\ resolution' = [resolution EXCEPT
           !.pc = "resolved",
           !.repoURL = ResolveRepo(srcComp),
           !.version = GetVersion(srcComp),
           !.repoType = GetType(srcComp),
           !.name = GetName(srcComp)]
    /\ UNCHANGED srcComp
    /\ UNCHANGED notResolve

\* the URL that was returned is resolved again
ResolveAgain ==
    /\ resolution.pc = "resolved"
    /\ resolution' = [resolution EXCEPT
           !.pc = "again",
           !.again = components_parseSourceURL(resolution.repoURL)]
    /\ UNCHANGED srcComp
    /\ UNCHANGED notResolve

\* syncComponentBackground and syncComponent: the name the result is
\* recorded under and <name>/.git is tested with, and the URL and version
\* handed to cloneComponent and updateComponent
SyncArguments ==
    /\ resolution.pc = "again"
    /\ resolution' = [resolution EXCEPT
           !.pc = "synced",
           !.engine = [name    |-> srcComp.Name,
                       repoURL |-> parseSourceURL(srcComp.Source).repoURL,
                       version |-> parseSourceURL(srcComp.Source).version]]
    /\ UNCHANGED srcComp
    /\ UNCHANGED notResolve

\* parseSourceURL of package commands called on the source with its three
\* results kept, as TestParseSourceURL calls it, beside the one of package
\* components
ParseSource ==
    /\ resolution.pc = "synced"
    /\ resolution' = [resolution EXCEPT
           !.pc = "parsed",
           !.commands = parseSourceURL(srcComp.Source),
           !.components = components_parseSourceURL(srcComp.Source)]
    /\ UNCHANGED srcComp
    /\ UNCHANGED notResolve

NoResolution ==
    [repoURL |-> <<>>, version |-> <<>>, repoType |-> <<>>]

InitResolve ==
    /\ IdleSync /\ NoFlatten /\ NoBoot /\ NoExec /\ NoVersion /\ NoGit
    /\ \E name \in ComponentNames, source \in Sources,
          version \in ComponentVersions :
          srcComp = [Name |-> name, Source |-> source, Version |-> version]
    /\ resolution = [pc |-> "start", repoURL |-> <<>>, version |-> <<>>,
                     repoType |-> <<>>, name |-> <<>>,
                     again |-> NoResolution,
                     engine |-> [name |-> <<>>, repoURL |-> <<>>,
                                 version |-> <<>>],
                     commands |-> [repoURL |-> <<>>, version |-> <<>>,
                                   schemaType |-> <<>>],
                     components |-> NoResolution]

NextResolve ==
    \/ ResolveComponent
    \/ ResolveAgain
    \/ SyncArguments
    \/ ParseSource

SpecResolve == InitResolve /\ [][NextResolve]_vars


(***************************************************************************)
(* Claims about the resolver                                               *)
(***************************************************************************)
IsResolved == resolution.pc # "start"

\* the scheme of the returned URL: git becomes https
CloneScheme(scheme) == IF scheme = <<"git">> THEN <<"https">> ELSE scheme

\* C25: for a source scheme://host/path?query the resolver returns the URL
\* without the query string, git:// rewritten to https:// and every other
\* scheme kept, and the value of the version parameter, empty when absent.
C25_QueryRemovedGitRewritten ==
    IsResolved =>
        \A scheme \in Schemes, hp \in HostPaths, q \in QueryForms :
            srcComp.Source = URLSource(scheme, hp, q) =>
                /\ resolution.repoURL
                       = CloneScheme(scheme) \o <<":", "/", "/">> \o hp
                /\ components_parseSourceURL(srcComp.Source).version = q.version

\* C26: for the SCP form user@host:path?version=V the resolver returns the
\* URL user@host:path, without the query string, and the version V.
C26_SCPFormKept ==
    IsResolved =>
        \A q \in QueryForms :
            srcComp.Source = SCPSource(q) =>
                /\ resolution.repoURL = SCPPath
                /\ components_parseSourceURL(srcComp.Source).version = q.version

\* C27: the type is the value of the type parameter when the source has
\* one and "git" otherwise, for URL and SCP forms and for sources that do
\* not parse.
C27_TypeFromParameterElseGit ==
    IsResolved =>
        /\ \A scheme \in Schemes, hp \in HostPaths, q \in QueryForms :
               srcComp.Source \in {URLSource(scheme, hp, q), SCPSource(q)} =>
                   resolution.repoType
                       = IF q.type # <<>> THEN q.type ELSE <<"git">>
        /\ srcComp.Source \in OddSources => resolution.repoType = <<"git">>

\* C28: resolving the URL that the resolver returned gives the same URL
\* again, with an empty version.
C28_ResolveIdempotent ==
    resolution.pc \in {"again", "synced"} =>
        /\ resolution.again.repoURL = resolution.repoURL
        /\ resolution.again.version = <<>>

C28_Witness ==
    /\ resolution.pc = "again"
    /\ srcComp.Source
           = URLSource(<<"git">>, <<"h", "/", "org", "/", "repo.git">>,
                       QueryForm(<<"?", "version", "=", "v1">>, <<"v1">>, <<>>))
    /\ resolution.repoURL
           = <<"https", ":", "/", "/", "h", "/", "org", "/", "repo.git">>
    /\ resolution.version = <<"v1">>

\* the ref a component asks for: the version parameter q carries, else the
\* component's version field
AskedRef(q) == IF q.version # <<>> THEN q.version ELSE srcComp.Version

\* C29: the ref a component is synced to is the version parameter of its
\* source when it has one and the component's version field otherwise;
\* GetVersion returns it and the sync engine hands it to clone/checkout and
\* update.
C29_RefIsSourceVersionElseField ==
    resolution.pc = "synced" =>
        \A scheme \in Schemes, hp \in HostPaths, q \in QueryForms :
            srcComp.Source \in {URLSource(scheme, hp, q), SCPSource(q)} =>
                /\ resolution.version = AskedRef(q)
                /\ resolution.engine.version = AskedRef(q)

UpdateLoops(t) ==
    /\ call[t].op = "UpdateResult"
    /\ call[t].pc = "body"
    /\ call'[t] # call[t]

\* C37: UpdateResult(name, ...) run on a store without an in-progress
\* record called name returns at once and leaves the store as it was: the
\* slice header and every record are unchanged.
C37_UpdateWithoutPendingIsNoOp ==
    [][\A t \in Threads :
          (UpdateLoops(t) /\ Pending(ResultsSeq, call[t].name) = {}) =>
              /\ Results' = Results
              /\ ResultsSeq' = ResultsSeq
              /\ call'[t].pc = "ret"]_vars

\* an UpdateResult has returned without a match on a store that holds an
\* in-progress record of another name only
C37_Witness ==
    \E t \in Threads :
        /\ call[t].op = "UpdateResult" /\ Returned(t) /\ call[t].i = 0
        /\ Len(ResultsSeq) = 1
        /\ ResultsSeq[1].InProgress
        /\ ResultsSeq[1].Name # call[t].name

NamesOf(rs) == [i \in 1..Len(rs) |-> rs[i].Name]

\* thread t's Add or SetInProgress appends in this step
Appends(t) ==
    /\ call[t].op \in {"Add", "SetInProgress"}
    /\ call[t].pc = "body"
    /\ call'[t].pc = "ret"

\* C38: the store is append-only and keeps its order: Add and SetInProgress
\* put exactly one record, carrying the call's name, after the records
\* there were, no other step changes the number of records or the order of
\* their names, and GetResults returns the records in the store's order.
C38_AppendOnlyInOrder ==
    [][/\ \A t \in Threads :
            Appends(t) =>
                /\ Len(ResultsSeq') = Len(ResultsSeq) + 1
                /\ SubSeq(ResultsSeq', 1, Len(ResultsSeq)) = ResultsSeq
                /\ ResultsSeq'[Len(ResultsSeq')].Name = call[t].name
       /\ (\A t \in Threads : ~Appends(t)) =>
              NamesOf(ResultsSeq') = NamesOf(ResultsSeq)
       /\ \A t \in Threads :
            GetResultsReturns(t) => SnapSeq(t)' = ResultsSeq]_vars

\* two records of different names were appended and a snapshot taken
\* afterwards lists both
C38_Witness ==
    \E t \in Threads :
        /\ Len(ResultsSeq) = 2
        /\ ResultsSeq[1].Name # ResultsSeq[2].Name
        /\ call[t].op = "GetResults" /\ Returned(t)
        /\ NamesOf(SnapSeq(t)) = NamesOf(ResultsSeq)


(***************************************************************************)
(* getCurrentVersion on its own (SpecVersion): the three git queries may   *)
(* each print something or nothing on either stream and exit zero or not.  *)
(***************************************************************************)
\* what a git query leaves behind: trimmed stdout, trimmed stderr, error
Run(stdout, stderr, err) == [stdout |-> stdout, stderr |-> stderr, err |-> err]

\* the runs of a query that prints value when it prints at all
Runs(value) ==
    {Run(stdout, stderr, err) :
        stdout \in {"", value}, stderr \in {"", "fatal"}, err \in {Nil, ExitError}}

\* getCurrentVersion(name) with the three executeGitCmd calls it may make
CurrentVersion ==
    /\ probe.pc = "start"
    /\ LET cmd(r) == executeGitCmd(r.stdout, r.stderr, r.err) IN
       probe' = [probe EXCEPT
                    !.pc = "done",
                    !.version = getCurrentVersion(cmd(probe.describe),
                                                  cmd(probe.abbrevRef),
                                                  cmd(probe.short))]
    /\ UNCHANGED notVersion

InitVersion ==
    /\ IdleSync /\ NoFlatten /\ NoBoot /\ NoExec /\ NoResolve /\ NoGit
    /\ \E d \in Runs("v1"), a \in Runs("main"), h \in Runs("abc12") :
          probe = [pc |-> "start", describe |-> d, abbrevRef |-> a,
                   short |-> h, version |-> ""]

NextVersion == CurrentVersion

SpecVersion == InitVersion /\ [][NextVersion]_vars

\* the query exited zero and printed something
Answered(r) == r.err = Nil /\ r.stdout # ""

\* what executeGitCmd hands back for a run
Handed(r) == IF r.err # Nil /\ r.stderr # "" THEN r.stderr ELSE r.stdout

C33_RecordShape ==
    \A i \in 1..Len(ResultsSeq) :
        LET r == ResultsSeq[i] IN
        /\ r.Error # Nil <=> (~r.InProgress /\ r.Action = SyncActionFailed)
        /\ r.InProgress => (r.Action = "" /\ r.Version = "" /\ r.Error = Nil)
        /\ r.Action \in {SyncActionCloned, SyncActionUpdated} => r.Error = Nil
        /\ r.Action = SyncActionFailed => r.Version = ""

\* the store holds a failed record with its error, a finished record with
\* its version and no error, or a failed one beside one still in progress
C33_Witness ==
    /\ Len(ResultsSeq) = 2
    /\ ResultsSeq[1].Action = SyncActionFailed /\ ResultsSeq[1].Error # Nil
    /\ \/ ResultsSeq[2].InProgress
       \/ ResultsSeq[2].Action = SyncActionCloned /\ ResultsSeq[2].Version # ""

\* the records of the store carrying name n
RecordsOf(n) == {i \in 1..Len(ResultsSeq) : ResultsSeq[i].Name = n}

\* threads about to run, or running, git in the directory of component n
InGit(n) == {t \in Threads : pc[t] \in {"clone", "update"} /\ cur[t].name = n}

\* C35 as stated: in a run over distinct names every component is claimed
\* by at most one worker: the store never holds a second record of a name
\* and no two goroutines are in the git operations of one directory at the
\* same time, the fallback after a failed UI program included.
C35_OneWorkerPerComponent ==
    DistinctNames =>
        \A n \in Names :
            /\ Cardinality(RecordsOf(n)) <= 1
            /\ Cardinality(InGit(n)) <= 1


(***************************************************************************)
(* Sort and the graph it reads (SpecBoot)                                  *)
(***************************************************************************)
\* the command is about to call proj.Sort()
AtSort == boot.pc \in {"sort", "sort2", "sort0"}

\* ProcessDeps has built proj.graph: it holds the project's node at least
HasGraph == Len(graph.nodes) >= 1

\* C36 as stated: whenever a command is about to call Project.Sort, the
\* project's graph has been built by ProcessDeps.
C36_SortOnlyOnBuiltGraph ==
    AtSort => HasGraph


(***************************************************************************)
(* The two parseSourceURL functions side by side (SpecResolve)             *)
(***************************************************************************)
\* both functions have been applied to the component's source
BothParsed == resolution.pc = "parsed"

\* C39 as stated: the parseSourceURL of package commands and the one of
\* package components return the same URL, the same version and the same
\* type for every source.
C39_ParsersAgree ==
    BothParsed =>
        /\ resolution.commands.repoURL = resolution.components.repoURL
        /\ resolution.commands.version = resolution.components.version
        /\ resolution.commands.schemaType = resolution.components.repoType

\* C39 amended: the two functions return the same URL and the same version
\* for every source, and the same type when commands returns a type; when
\* commands returns no type (no type parameter, or a source that does not
\* parse) components returns the default type git.
C39_ParsersAgreeButDefaultType ==
    BothParsed =>
        /\ resolution.commands.repoURL = resolution.components.repoURL
        /\ resolution.commands.version = resolution.components.version
        /\ resolution.components.repoType =
              IF resolution.commands.schemaType = <<>> THEN DefaultRepoType
              ELSE resolution.commands.schemaType

\* a git:// source with a version and no type went through both functions:
\* same rewritten URL, same version, types "" and git
C39_Witness ==
    /\ BothParsed
    /\ HasPrefix(srcComp.Source, <<"git", ":", "/", "/">>)
    /\ resolution.commands.version # <<>>
    /\ resolution.commands.schemaType = <<>>
    /\ resolution.components.repoType = DefaultRepoType
    /\ HasPrefix(resolution.commands.repoURL, <<"https", ":", "/", "/">>)


(***************************************************************************)
(* The git command (SpecGit): runGit, getRepos, the GitExecutor and the    *)
(* interactive gitModel.  The Execute* methods hold ge.mu for their first  *)
(* and for their last statements, GetResults copies under the read lock,   *)
(* so each of these is one step.                                           *)
(***************************************************************************)
\* the names a project can carry; "." is the one CreateLocalProject gives
ProjectNames == {"app", "", "."}

\* args[0] of the command: none, the five subcommands, an unknown one
Subcommands == {"none", "status", "pull", "fetch", "checkout", "branch", "log"}

\* filepath.Join(".", name)
JoinDot(name) == IF name \in {"", "."} THEN "." ELSE name

\* os.Stat(path) returns no error: the current directory always exists,
\* any other path when the disk holds a file or a directory of that name
StatOk(path) == path = "." \/ gitcmd.disk[path] # "absent"

\* variant: every repository of the project is kept
getReposUnfiltered(name) == <<name>>

\* getRepos: the project's own ComponentRef, kept when its path exists
getRepos(name) ==
    IF StatOk(JoinDot(name)) THEN <<name>> ELSE <<>>

\* &GitResult{Name, Path, Operation, Running: true}
GitResult(name, path, operation) ==
    [in |-> TRUE, Name |-> name, Path |-> path, Operation |-> operation,
     Running |-> TRUE, Error |-> Nil]

\* a name without an entry in ge.results
NoGitResult ==
    [in |-> FALSE, Name |-> "", Path |-> "", Operation |-> "",
     Running |-> FALSE, Error |-> Nil]

\* the Operation field: the subcommand, with the branch for checkout/branch
OperationOf(sub, subArgs) ==
    IF sub \in {"checkout", "branch"} THEN <<sub, subArgs[1]>> ELSE <<sub>>

GitAlive == gitcmd.pc = "running"

\* runGit up to getRepos: no subcommand exits 1; a configuration file that
\* cannot be parsed falls back to the current directory when it is a git
\* repository and is fatal otherwise
LoadProject ==
    /\ gitcmd.pc = "start"
    /\ gitcmd' =
         IF gitcmd.sub = "none" THEN [gitcmd EXCEPT !.pc = "exit1"]
         ELSE IF gitcmd.cfg = "missing" /\ ~gitcmd.cwdGit
         THEN [gitcmd EXCEPT !.pc = "fatal"]
         ELSE [gitcmd EXCEPT
                  !.pc = "loaded",
                  !.proj = IF gitcmd.cfg = "missing" THEN "."
                           ELSE gitcmd.cfgName]
    /\ UNCHANGED <<ge, gm>>
    /\ UNCHANGED notGit

\* runGit from getRepos on: an empty list returns at once; the switch on
\* the subcommand exits 1 for an unknown one and for checkout and branch
\* without a branch name; otherwise execFunc is started, on a goroutine of
\* its own beside the UI when interactive
Dispatch ==
    /\ gitcmd.pc = "loaded"
    /\ LET repos == getRepos(gitcmd.proj) IN
       IF repos = <<>>
       THEN /\ gitcmd' = [gitcmd EXCEPT !.pc = "returned", !.listed = TRUE]
            /\ UNCHANGED <<ge, gm>>
       ELSE IF \/ gitcmd.sub \notin {"status", "pull", "fetch", "checkout", "branch"}
               \/ gitcmd.sub \in {"checkout", "branch"} /\ gitcmd.subArgs = <<>>
       THEN /\ gitcmd' = [gitcmd EXCEPT !.pc = "exit1", !.listed = TRUE,
                                         !.repos = repos]
            /\ UNCHANGED <<ge, gm>>
       ELSE /\ gitcmd' = [gitcmd EXCEPT !.pc = "running", !.listed = TRUE,
                                         !.repos = repos]
            /\ ge' = [ge EXCEPT
                         !.calls = [i \in 1..Len(repos) |->
                                      [name |-> repos[i],
                                       path |-> JoinDot(repos[i]),
                                       pc |-> "idle", ops |-> <<>>,
                                       err |-> Nil]]]
            /\ gm' = IF gitcmd.interactive
                     THEN [pc |-> "ui", repos |-> repos,
                           results |-> [n \in ProjectNames |-> NoGitResult],
                           allDone |-> FALSE, quitting |-> FALSE]
                     ELSE gm
    /\ UNCHANGED notGit

\* runGitOperation: every goroutine may begin when parallel, the next
\* repository begins when the one before it has returned otherwise
MayExecute(i) ==
    gitcmd.parallel \/ \A j \in 1..(i - 1) : ge.calls[j].pc = "done"

\* Execute*: the result is built with Running true and put into ge.results
ExecutePublish(i) ==
    /\ GitAlive
    /\ ge.calls[i].pc = "idle"
    /\ MayExecute(i)
    /\ LET c == ge.calls[i] IN
       ge' = [ge EXCEPT
                 !.calls[i].pc = "published",
                 !.results[c.name] =
                     GitResult(c.name, c.path,
                               OperationOf(gitcmd.sub, gitcmd.subArgs))]
    /\ UNCHANGED <<gitcmd, gm>>
    /\ UNCHANGED notGit

\* Execute*: getRepoInfo and the git command of the operation run in path
ExecuteGit(i) ==
    /\ GitAlive
    /\ ge.calls[i].pc = "published"
    /\ \E err \in {Nil, ExitError} :
          ge' = [ge EXCEPT
                    !.calls[i].pc = "ran",
                    !.calls[i].err = err,
                    !.calls[i].ops =
                        Append(@, GitOp(ge.calls[i].path, gitcmd.sub,
                                        gitcmd.subArgs, err))]
    /\ UNCHANGED <<gitcmd, gm>>
    /\ UNCHANGED notGit

\* Execute*: the closing writes under the lock: Error, Running = false
ExecuteFinish(i) ==
    /\ GitAlive
    /\ ge.calls[i].pc = "ran"
    /\ ge' = [ge EXCEPT
                 !.calls[i].pc = "done",
                 !.results[ge.calls[i].name].Error = ge.calls[i].err,
                 !.results[ge.calls[i].name].Running = FALSE]
    /\ UNCHANGED <<gitcmd, gm>>
    /\ UNCHANGED notGit

\* executeGitSubcommand, not interactive: execFunc has returned,
\* printGitTable, runGit returns
PrintGitTable ==
    /\ GitAlive /\ ~gitcmd.interactive
    /\ \A i \in DOMAIN ge.calls : ge.calls[i].pc = "done"
    /\ gitcmd' = [gitcmd EXCEPT !.pc = "returned"]
    /\ UNCHANGED <<ge, gm>>
    /\ UNCHANGED notGit

\* the allDone loop of gitModel.Update: no entry of the map is running
gitAllDone(results) ==
    \A n \in ProjectNames : results[n].in => ~results[n].Running

\* gitTickMsg: m.results = GetResults(), allDone; tea.Quit when all done
\* ends Run, runGitInteractive returns nil and the command returns
GitTick ==
    /\ GitAlive /\ gm.pc = "ui"
    /\ LET allDone == gitAllDone(ge.results) IN
       /\ gm' = [gm EXCEPT !.results = ge.results, !.allDone = allDone,
                           !.pc = IF allDone THEN "quit" ELSE "ui"]
       /\ gitcmd' = IF allDone THEN [gitcmd EXCEPT !.pc = "returned"]
                    ELSE gitcmd
    /\ UNCHANGED ge
    /\ UNCHANGED notGit

\* tea.KeyMsg ctrl+c or q
GitKeyQuit ==
    /\ GitAlive /\ gm.pc = "ui"
    /\ gm' = [gm EXCEPT !.quitting = TRUE, !.pc = "quit"]
    /\ gitcmd' = [gitcmd EXCEPT !.pc = "returned"]
    /\ UNCHANGED ge
    /\ UNCHANGED notGit

\* p.Run() returns an error: runGitInteractive wraps it, os.Exit(1)
GitRunError ==
    /\ GitAlive /\ gm.pc = "ui"
    /\ gm' = [gm EXCEPT !.pc = "error"]
    /\ gitcmd' = [gitcmd EXCEPT !.pc = "exit1"]
    /\ UNCHANGED ge
    /\ UNCHANGED notGit

InitGit ==
    /\ IdleSync /\ NoFlatten /\ NoBoot /\ NoExec /\ NoResolve /\ NoVersion
    /\ \E sub \in Subcommands, subArgs \in {<<>>, <<"dev">>},
          interactive \in BOOLEAN, parallel \in BOOLEAN,
          cfg \in {"ok", "missing"}, cfgName \in {"app", ""},
          cwdGit \in BOOLEAN, kind \in FsKinds :
          /\ cfg = "missing" => cfgName = ""
          /\ gitcmd = [pc |-> "start", sub |-> sub, subArgs |-> subArgs,
                       interactive |-> interactive, parallel |-> parallel,
                       cfg |-> cfg, cfgName |-> cfgName, cwdGit |-> cwdGit,
                       disk |-> [n \in {"app"} |-> kind],
                       proj |-> "", listed |-> FALSE, repos |-> <<>>]
    /\ ge = [results |-> [n \in ProjectNames |-> NoGitResult], calls |-> <<>>]
    /\ gm = [pc |-> "off"]

NextGit ==
    \/ LoadProject
    \/ Dispatch
    \/ \E i \in DOMAIN ge.calls :
          \/ ExecutePublish(i)
          \/ ExecuteGit(i)
          \/ ExecuteFinish(i)
    \/ PrintGitTable
    \/ GitTick
    \/ GitKeyQuit
    \/ GitRunError

SpecGit == InitGit /\ [][NextGit]_vars


(***************************************************************************)
(* Properties of the git command (SpecGit)                                 *)
(***************************************************************************)
\* the Execute* calls that have begun
Begun == {i \in DOMAIN ge.calls : ge.calls[i].pc # "idle"}

\* the path of repository name is on the disk
OnDisk(name) == name \in {"", "."} \/ gitcmd.disk[name] # "absent"

AllFinished ==
    \A k \in 1..Len(gm.repos) :
        ge.results[gm.repos[k]].in /\ ~ge.results[gm.repos[k]].Running

\* C34 as stated, for the git model: allDone is set at a tick only when
\* every repository of the model's list has a record with Running false,
\* and the model does not quit of its own before all operations finished.
C34_AllDoneOnlyWhenAllFinished ==
    (gm.pc \in {"ui", "quit"} /\ gm.allDone) => AllFinished


=============================================================================
